--------------------------- MODULE OhciOwnProofs ---------------------------
(* Who owns the units of the pool in OhciHcd: nothing the controller, the  *)
(* lists, the pipes or a chain of TDs still refers to is free, and a TD is *)
(* on one chain only, for every pool, set of endpoints and of requests, as *)
(* long as the pool is not exhausted in the middle of a submission.        *)
EXTENDS OhciHcdProofs

\* A submission needs another TD and there is no unit left.  The TDs of
\* ohci_ctrl_xfer then hold a null pointer, and ohci_bulk_xfer frees an ED that
\* may be linked.
Exhausted == /\ mpc \in {"ctrl_td", "bulk_td"} /\ Len(mtds) < mn
             /\ FirstFree(used) = 0

-----------------------------------------------------------------------------
(* Chains as sequences without repetition.                                 *)

NoDup(s) == \A i, j \in DOMAIN s : s[i] = s[j] => i = j

LEMMA NoDupEmpty == NoDup(<<>>) /\ Range(<<>>) = {}
  BY DEF NoDup, Range

\* The head of a chain is taken off it.
LEMMA NoDupTail ==
    ASSUME NEW S, NEW s \in Seq(S), s # <<>>, NoDup(s)
    PROVE  /\ NoDup(Tail(s)) /\ Range(Tail(s)) = Range(s) \ {Head(s)}
           /\ Head(s) \in Range(s)
  <1>1. /\ Tail(s) \in Seq(S) /\ Len(Tail(s)) = Len(s) - 1 /\ Len(s) \in Nat \ {0}
        /\ \A i \in 1..(Len(s) - 1) : Tail(s)[i] = s[i + 1]
        /\ Head(s) = s[1]
    OBVIOUS
  <1>2. /\ \A i \in DOMAIN Tail(s) : i \in Nat /\ i + 1 \in DOMAIN s /\ i + 1 # 1
        /\ \A i \in DOMAIN s : i = 1 \/ (i \in Nat /\ i - 1 \in DOMAIN Tail(s) /\ (i - 1) + 1 = i)
        /\ 1 \in DOMAIN s
    BY <1>1
  <1>3. \A i \in DOMAIN Tail(s) : Tail(s)[i] = s[i + 1]
    BY <1>1
  <1>4. NoDup(Tail(s))
    <2>1. ASSUME NEW i \in DOMAIN Tail(s), NEW j \in DOMAIN Tail(s), Tail(s)[i] = Tail(s)[j]
          PROVE  i = j
      <3>1. i + 1 = j + 1
        BY <1>2, <1>3, <2>1 DEF NoDup
      <3> QED BY <1>2, <3>1
    <2> QED BY <2>1 DEF NoDup
  <1>5. Range(Tail(s)) \subseteq Range(s) \ {Head(s)}
    BY <1>1, <1>2, <1>3 DEF Range, NoDup
  <1>6. Range(s) \ {Head(s)} \subseteq Range(Tail(s))
    <2>1. ASSUME NEW i \in DOMAIN s, s[i] # s[1] PROVE s[i] \in Range(Tail(s))
      <3>1. i - 1 \in DOMAIN Tail(s) /\ Tail(s)[i - 1] = s[i]
        BY <1>2, <1>3, <2>1
      <3> QED BY <3>1 DEF Range
    <2> QED BY <1>1, <2>1 DEF Range
  <1>7. Head(s) \in Range(s)
    BY <1>1, <1>2 DEF Range
  <1> QED BY <1>4, <1>5, <1>6, <1>7

\* A TD is put in front of a chain ...
LEMMA NoDupCons ==
    ASSUME NEW S, NEW s \in Seq(S), NEW t \in S, NoDup(s), t \notin Range(s)
    PROVE  NoDup(<<t>> \o s) /\ Range(<<t>> \o s) = Range(s) \cup {t}
  <1> DEFINE r == <<t>> \o s
  <1>1. /\ r \in Seq(S) /\ Len(r) = Len(s) + 1 /\ r[1] = t
        /\ \A i \in 1..Len(s) : r[i + 1] = s[i]
    OBVIOUS
  <1> HIDE DEF r
  <1>2. Len(s) \in Nat /\ DOMAIN s = 1..Len(s) /\ DOMAIN r = 1..(Len(s) + 1)
    BY <1>1
  <1>3. /\ \A i \in DOMAIN r : (i = 1 /\ r[i] = t) \/ (i - 1 \in DOMAIN s /\ r[i] = s[i - 1])
        /\ \A i \in DOMAIN s : i + 1 \in DOMAIN r /\ r[i + 1] = s[i]
        /\ 1 \in DOMAIN r
    BY <1>1, <1>2
  <1>4. NoDup(r)
    <2>1. ASSUME NEW i \in DOMAIN r, NEW j \in DOMAIN r, r[i] = r[j] PROVE i = j
      <3>1. CASE i = 1 \/ j = 1
        BY <1>1, <1>3, <2>1, <3>1 DEF Range
      <3>2. CASE i # 1 /\ j # 1
        <4>1. i - 1 = j - 1
          BY <1>3, <2>1, <3>2 DEF NoDup
        <4> QED BY <1>2, <4>1
      <3> QED BY <3>1, <3>2
    <2> QED BY <2>1 DEF NoDup
  <1>5. Range(r) = Range(s) \cup {t}
    <2>1. Range(r) \subseteq Range(s) \cup {t}
      BY <1>3 DEF Range
    <2>2. Range(s) \subseteq Range(r)
      BY <1>3 DEF Range
    <2>3. t \in Range(r)
      BY <1>1, <1>3 DEF Range
    <2> QED BY <2>1, <2>2, <2>3
  <1> QED BY <1>4, <1>5 DEF r

\* ... or at its end.
LEMMA NoDupAppend ==
    ASSUME NEW S, NEW s \in Seq(S), NEW t \in S, NoDup(s), t \notin Range(s),
           NEW a, a = Append(s, t)
    PROVE  NoDup(a) /\ Range(a) = Range(s) \cup {t}
  <1>1. /\ a \in Seq(S) /\ Len(a) = Len(s) + 1 /\ a[Len(s) + 1] = t
        /\ \A i \in 1..Len(s) : a[i] = s[i]
    OBVIOUS
  <1>2. Len(s) \in Nat /\ DOMAIN s = 1..Len(s) /\ DOMAIN a = 1..(Len(s) + 1)
    BY <1>1
  <1>3. /\ \A i \in DOMAIN a : (i = Len(s) + 1 /\ a[i] = t) \/ (i \in DOMAIN s /\ a[i] = s[i])
        /\ \A i \in DOMAIN s : i \in DOMAIN a /\ a[i] = s[i]
        /\ Len(s) + 1 \in DOMAIN a
    BY <1>1, <1>2
  <1>4. NoDup(a)
    <2>1. ASSUME NEW i \in DOMAIN a, NEW j \in DOMAIN a, a[i] = a[j] PROVE i = j
      BY <1>3, <2>1 DEF NoDup, Range
    <2> QED BY <2>1 DEF NoDup
  <1>5. Range(a) = Range(s) \cup {t}
    <2>1. Range(a) \subseteq Range(s) \cup {t}
      BY <1>3 DEF Range
    <2>2. Range(s) \subseteq Range(a)
      BY <1>3 DEF Range
    <2>3. t \in Range(a)
      BY <1>1, <1>3 DEF Range
    <2> QED BY <2>1, <2>2, <2>3
  <1> QED BY <1>4, <1>5

\* The done queue is reversed.
LEMMA NoDupReverse ==
    ASSUME NEW S, NEW s \in Seq(S), NoDup(s)
    PROVE  NoDup(Reverse(s)) /\ Range(Reverse(s)) = Range(s)
  <1> DEFINE r == Reverse(s)
  <1>1. DOMAIN r = 1..Len(s) /\ \A i \in 1..Len(s) : r[i] = s[(Len(s) - i) + 1]
    BY DEF Reverse
  <1> HIDE DEF r
  <1>2. Len(s) \in Nat /\ DOMAIN s = 1..Len(s)
    OBVIOUS
  <1>3. \A i \in DOMAIN s : (Len(s) - i) + 1 \in DOMAIN s /\ (Len(s) - ((Len(s) - i) + 1)) + 1 = i
    BY <1>2
  <1>4. NoDup(r)
    <2>1. ASSUME NEW i \in DOMAIN r, NEW j \in DOMAIN r, r[i] = r[j] PROVE i = j
      <3>1. (Len(s) - i) + 1 = (Len(s) - j) + 1
        BY <1>1, <1>2, <1>3, <2>1 DEF NoDup
      <3> QED BY <1>1, <1>2, <3>1
    <2> QED BY <2>1 DEF NoDup
  <1>5. Range(r) \subseteq Range(s)
    BY <1>1, <1>2, <1>3 DEF Range
  <1>6. ASSUME NEW i \in DOMAIN s PROVE s[i] \in Range(r)
    <2>1. (Len(s) - i) + 1 \in DOMAIN r /\ r[(Len(s) - i) + 1] = s[i]
      BY <1>1, <1>2, <1>3
    <2> QED BY <2>1 DEF Range
  <1>7. Range(s) \subseteq Range(r)
    BY <1>6 DEF Range
  <1> QED BY <1>4, <1>5, <1>7 DEF r

\* A chain without repetition has as many TDs as places.
LEMMA NoDupCard ==
    ASSUME NEW S, NEW s \in Seq(S), NoDup(s)
    PROVE  Cardinality(Range(s)) = Len(s)
  <1>1. DOMAIN s = 1..Len(s) /\ Len(s) \in Nat
    OBVIOUS
  <1>2. s \in Bijection(1..Len(s), Range(s))
    <2>1. s \in [1..Len(s) -> Range(s)]
      BY <1>1 DEF Range
    <2>2. IsInjective(s)
      BY DEF IsInjective, NoDup
    <2>3. \A t \in Range(s) : \E i \in 1..Len(s) : s[i] = t
      BY <1>1 DEF Range
    <2> QED BY <1>1, <2>1, <2>2, <2>3 DEF Bijection, Injection, Surjection, NoDup
  <1>3. IsFiniteSet(1..Len(s)) /\ Cardinality(1..Len(s)) = Len(s)
    BY <1>1, FS_Interval
  <1>4. ExistsBijection(1..Len(s), Range(s))
    BY <1>2 DEF ExistsBijection
  <1> QED BY <1>3, <1>4, FS_Bijection

-----------------------------------------------------------------------------
(* The invariant.                                                          *)

\* Every chain of TDs there is, reachable or not: Places has those of the
\* active EDs only.
Spots == ({"main", "hc", "hcca", "isr"} \X {0}) \cup ({"ed"} \X Units)
AllTds == UNION {TdsOn(p) : p \in Spots}

\* No chain repeats a TD and no two share one.
ChainsInv ==
    /\ \A p \in Spots : NoDup(Chain(p))
    /\ \A p, q \in Spots : p # q => TdsOn(p) \cap TdsOn(q) = {}

\* A TD on a chain is an allocated unit and no ED.
TdsInv == \A t \in AllTds : t \in Units /\ used[t] /\ info[t] = None /\ t # med

\* What a unit that is no ED has not got.
MemInv == \A u \in Units : /\ ~used[u] => info[u] = None
                           /\ info[u] = None => queue[u] = <<>>

\* An ED is on the list of its kind only.
ListInv == \A k \in Kinds : \A u \in list[k] : info[u] \in Eps /\ Kind[info[u]] = k

\* The endpoint's pipe is an ED for it, unless the endpoint is being quit.
Settled(e) == e = mep => mpc \notin {"arm", "delay", "quit_done"}
PipeInv == \A e \in Eps : Settled(e) /\ hwPipe[e] # 0 => info[hwPipe[e]] = e

\* The ED to be removed is for the endpoint that is being quit, and once a
\* frame has begun in the delay the controller is not at it.
RemovalInv == \A u \in Range(removeList) :
                 /\ info[u] = mep /\ skip[u]
                 /\ (sfEn /\ sf) \/ ipc = "remove" => hcEd # u

\* The controller is at an ED, and so is a submission: its own or a fresh unit.
ServedInv == hcEd # 0 => info[hcEd] # None
FreshEd == mpc = "ctrl_link" /\ info[med] = None /\ hwPipe[mep] = 0
MedInv == med # 0 => used[med] /\ mpc \in {"ctrl_link", "bulk_td"} /\ (info[med] = mep \/ FreshEd)
KindInv == /\ mpc \in {"ctrl_td", "ctrl_link"} => Kind[mep] = "ctrl"
           /\ mpc \in {"bulk_ed", "bulk_td"} => Kind[mep] = "bulk"

EdsInv == MemInv /\ ListInv /\ PipeInv /\ RemovalInv /\ ServedInv /\ MedInv /\ KindInv
OwnInv == ChainsInv /\ TdsInv /\ EdsInv

-----------------------------------------------------------------------------
(* Chains.                                                                 *)

LEMMA SpotsAre ==
    /\ <<"main", 0>> \in Spots /\ <<"hc", 0>> \in Spots /\ <<"hcca", 0>> \in Spots
    /\ <<"isr", 0>> \in Spots /\ \A u \in Units : <<"ed", u>> \in Spots
    /\ \A p \in Spots : p \in {<<"main", 0>>, <<"hc", 0>>, <<"hcca", 0>>, <<"isr", 0>>}
                        \/ \E u \in Units : p = <<"ed", u>>
    /\ \A u, v \in Units : <<"ed", u>> = <<"ed", v>> => u = v
  BY DEF Spots

LEMMA ChainIs ==
    /\ Chain(<<"main", 0>>) = mtds /\ Chain(<<"hc", 0>>) = hcDone
    /\ Chain(<<"hcca", 0>>) = hccaDone /\ Chain(<<"isr", 0>>) = work
    /\ \A u \in Units : Chain(<<"ed", u>>) = queue[u]
    /\ Chain(<<"main", 0>>)' = mtds' /\ Chain(<<"hc", 0>>)' = hcDone'
    /\ Chain(<<"hcca", 0>>)' = hccaDone' /\ Chain(<<"isr", 0>>)' = work'
    /\ \A u \in Units : Chain(<<"ed", u>>)' = queue'[u]
  BY DEF Chain

LEMMA ChainType ==
    ASSUME TypeInv, NEW p \in Spots
    PROVE  Chain(p) \in Seq(Ptr)
  <1>1. mtds \in Seq(Ptr) /\ hcDone \in Seq(Ptr) /\ hccaDone \in Seq(Ptr) /\ work \in Seq(Ptr)
        /\ \A u \in Units : queue[u] \in Seq(Ptr)
    BY Zenon DEF TypeInv, MainOK, HcOK, IsrOK, MemOK
  <1>2. CASE p \in {<<"main", 0>>, <<"hc", 0>>, <<"hcca", 0>>, <<"isr", 0>>}
    BY <1>1, <1>2, ChainIs
  <1>3. CASE \E u \in Units : p = <<"ed", u>>
    BY <1>1, <1>3, ChainIs
  <1> QED BY <1>2, <1>3, SpotsAre

\* The chains whose variables a step leaves alone.
LEMMA ChainsSame ==
    ASSUME NEW D \in SUBSET Spots,
           <<"main", 0>> \in D => mtds' = mtds, <<"hc", 0>> \in D => hcDone' = hcDone,
           <<"hcca", 0>> \in D => hccaDone' = hccaDone, <<"isr", 0>> \in D => work' = work,
           \A u \in Units : <<"ed", u>> \in D => queue'[u] = queue[u]
    PROVE  \A p \in D : Chain(p)' = Chain(p) /\ TdsOn(p)' = TdsOn(p)
  <1>1. ASSUME NEW p \in D PROVE Chain(p)' = Chain(p)
    <2>1. p \in {<<"main", 0>>, <<"hc", 0>>, <<"hcca", 0>>, <<"isr", 0>>}
          \/ \E u \in Units : p = <<"ed", u>>
      BY SpotsAre
    <2>2. CASE p = <<"main", 0>>
      BY <2>2 DEF Chain
    <2>3. CASE p = <<"hc", 0>>
      BY <2>3 DEF Chain
    <2>4. CASE p = <<"hcca", 0>>
      BY <2>4 DEF Chain
    <2>5. CASE p = <<"isr", 0>>
      BY <2>5 DEF Chain
    <2>6. ASSUME NEW u \in Units, p = <<"ed", u>> PROVE Chain(p)' = Chain(p)
      BY <2>6 DEF Chain
    <2> QED BY <2>1, <2>2, <2>3, <2>4, <2>5, <2>6
  <1> QED BY <1>1 DEF TdsOn

\* A step changes the chains a and b only: what was on them, and TDs that were
\* on no chain before, are on one of them, once.
LEMMA ChainsMove ==
    ASSUME ChainsInv, NEW a \in Spots, NEW b \in Spots, NEW Fresh,
           Fresh \cap AllTds = {},
           \A p \in Spots \ {a, b} : NoDup(Chain(p)') /\ TdsOn(p)' \subseteq TdsOn(p),
           NoDup(Chain(a)'), NoDup(Chain(b)'),
           TdsOn(a)' \cup TdsOn(b)' \subseteq TdsOn(a) \cup TdsOn(b) \cup Fresh,
           a # b => TdsOn(a)' \cap TdsOn(b)' = {}
    PROVE  ChainsInv' /\ AllTds' \subseteq AllTds \cup Fresh
  <1>1. \A p \in Spots : TdsOn(p) \subseteq AllTds
    BY DEF AllTds
  <1>2. \A p \in Spots : NoDup(Chain(p)')
    OBVIOUS
  <1>3. ASSUME NEW p \in Spots \ {a, b}
        PROVE  TdsOn(p)' \cap TdsOn(a)' = {} /\ TdsOn(p)' \cap TdsOn(b)' = {}
    <2>1. TdsOn(p) \cap TdsOn(a) = {} /\ TdsOn(p) \cap TdsOn(b) = {} /\ TdsOn(p) \cap Fresh = {}
      BY <1>1 DEF ChainsInv
    <2> QED BY <2>1
  <1>4. ASSUME NEW p \in Spots, NEW q \in Spots, p # q PROVE TdsOn(p)' \cap TdsOn(q)' = {}
    <2>1. CASE p \notin {a, b} /\ q \notin {a, b}
      <3>1. TdsOn(p) \cap TdsOn(q) = {}
        BY <1>4 DEF ChainsInv
      <3> QED BY <2>1, <3>1
    <2> QED BY <1>3, <1>4, <2>1
  <1>5. AllTds' \subseteq AllTds \cup Fresh
    <2>1. \A p \in Spots : TdsOn(p)' \subseteq AllTds \cup Fresh
      BY <1>1
    <2> QED BY <2>1 DEF AllTds, Spots
  <1> QED BY <1>2, <1>4, <1>5 DEF ChainsInv, Spots

\* A step changes one chain only, by TDs that were on none.
LEMMA ChainGrows ==
    ASSUME ChainsInv, NEW a \in Spots, NEW Fresh, Fresh \cap AllTds = {},
           \A p \in Spots \ {a} : Chain(p)' = Chain(p) /\ TdsOn(p)' = TdsOn(p),
           NoDup(Chain(a)'), TdsOn(a)' \subseteq TdsOn(a) \cup Fresh
    PROVE  ChainsInv' /\ AllTds' \subseteq AllTds \cup Fresh
  <1>1. \A p \in Spots \ {a, a} : NoDup(Chain(p)') /\ TdsOn(p)' \subseteq TdsOn(p)
    BY DEF ChainsInv
  <1>2. TdsOn(a)' \cup TdsOn(a)' \subseteq TdsOn(a) \cup TdsOn(a) \cup Fresh
    OBVIOUS
  <1> QED BY <1>1, <1>2, ChainsMove

\* A step that touches no chain.
LEMMA ChainsStay ==
    ASSUME ChainsInv, UNCHANGED <<queue, mtds, hcDone, hccaDone, work>>
    PROVE  ChainsInv' /\ AllTds' = AllTds
  <1>1. \A p \in Spots : Chain(p)' = Chain(p)
    BY SpotsAre, ChainIs
  <1>2. \A p \in Spots : TdsOn(p)' = TdsOn(p)
    BY <1>1 DEF TdsOn
  <1> QED BY <1>1, <1>2 DEF ChainsInv, AllTds, Spots

\* A step that allocates and frees nothing and moves no TD.
LEMMA StayOwn ==
    ASSUME OwnInv, UNCHANGED <<used, info, queue, list, hcDone, hccaDone, work>>,
           mtds' = mtds \/ mtds' = <<>>, med' = med \/ med' = 0
    PROVE  ChainsInv' /\ TdsInv' /\ MemInv' /\ ListInv'
  <1>1. ChainsInv' /\ AllTds' \subseteq AllTds
    <2> DEFINE m == <<"main", 0>>
    <2>1. m \in Spots
      BY SpotsAre
    <2>2. \A p \in Spots \ {m} : Chain(p)' = Chain(p)
      BY SpotsAre, ChainIs
    <2>3. NoDup(Chain(m)') /\ TdsOn(m)' \subseteq TdsOn(m)
      BY <2>1, ChainIs, NoDupEmpty DEF OwnInv, ChainsInv, TdsOn
    <2>4. \A p \in Spots \ {m} : NoDup(Chain(p)') /\ TdsOn(p)' \subseteq TdsOn(p)
      BY <2>2 DEF OwnInv, ChainsInv, TdsOn
    <2> HIDE DEF m
    <2>5. ChainsInv' /\ AllTds' \subseteq AllTds \cup {}
      BY <2>1, <2>3, <2>4, ChainsMove DEF OwnInv
    <2> QED BY <2>5
  <1>2. TdsInv'
    <2>1. \A t \in AllTds : t # 0
      BY DEF OwnInv, TdsInv, Units
    <2> QED BY <1>1, <2>1 DEF OwnInv, TdsInv
  <1>3. MemInv' /\ ListInv'
    BY DEF OwnInv, EdsInv, MemInv, ListInv
  <1> QED BY <1>1, <1>2, <1>3

\* FirstFree of the flags as they are, or with some more of them set.
LEMMA FreshUnit ==
    ASSUME TypeInv, OwnInv, NEW us \in [Units -> BOOLEAN], \A u \in Units : used[u] => us[u],
           FirstFree(us) # 0
    PROVE  /\ FirstFree(us) \in Units /\ ~us[FirstFree(us)] /\ ~used[FirstFree(us)]
           /\ info[FirstFree(us)] = None /\ queue[FirstFree(us)] = <<>>
           /\ FirstFree(us) \notin AllTds
           /\ \A k \in Kinds : FirstFree(us) \notin list[k]
  <1> DEFINE u == FirstFree(us)
  <1>1. u \in Units /\ ~us[u]
    BY FirstFreeFacts
  <1> HIDE DEF u
  <1>2. ~used[u] /\ info[u] = None /\ queue[u] = <<>>
    BY <1>1 DEF OwnInv, EdsInv, MemInv
  <1>3. u \notin AllTds
    BY <1>2 DEF OwnInv, TdsInv
  <1>4. \A k \in Kinds : u \notin list[k]
    BY <1>2, ConstAssumption DEF OwnInv, EdsInv, ListInv
  <1> QED BY <1>1, <1>2, <1>3, <1>4 DEF u

-----------------------------------------------------------------------------
(* The controller.                                                         *)

LEMMA OwnHc ==
    ASSUME TypeInv, RemoveInv, OwnInv, Hc
    PROVE  OwnInv'
  <1>0. 0 \notin Units /\ None \notin Eps
    BY ConstAssumption DEF Units
  <1>1. CASE HcFetch
    <2>1. ChainsInv' /\ TdsInv' /\ MemInv' /\ ListInv'
      BY <1>1, StayOwn, Zenon DEF HcFetch, mem, links, isr, main
    <2>2. PICK u \in Units : Linked(u) /\ ~skip[u] /\ hcEd' = u
      BY <1>1, Zenon DEF HcFetch
    <2>3. info[u] # None
      BY <1>0, <2>2 DEF Linked, OwnInv, EdsInv, ListInv
    <2>4. UNCHANGED <<info, used, skip, hwPipe, removeList, mpc, mep, med, sfEn, sf, ipc>>
      BY <1>1, Zenon DEF HcFetch, mem, links, isr, main
    <2>5. PipeInv' /\ ServedInv' /\ MedInv' /\ KindInv'
      BY <2>2, <2>3, <2>4 DEF OwnInv, EdsInv, PipeInv, Settled, ServedInv, MedInv, FreshEd, KindInv
    <2>6. RemovalInv'
      BY <2>2, <2>4, Zenon DEF OwnInv, EdsInv, RemovalInv
    <2> QED BY <2>1, <2>5, <2>6 DEF OwnInv, EdsInv
  <1>2. CASE HcNak
    <2>1. ChainsInv' /\ TdsInv' /\ MemInv' /\ ListInv'
      BY <1>2, StayOwn, Zenon DEF HcNak, mem, links, isr, main
    <2>2. UNCHANGED <<info, used, skip, hwPipe, removeList, mpc, mep, med, sfEn, sf, ipc>> /\ hcEd' = 0
      BY <1>2, Zenon DEF HcNak, mem, links, isr, main
    <2>3. PipeInv' /\ ServedInv' /\ MedInv' /\ KindInv'
      BY <2>2 DEF OwnInv, EdsInv, PipeInv, Settled, ServedInv, MedInv, FreshEd, KindInv
    <2>4. Range(removeList) \subseteq Units
      BY DEF TypeInv, LinksOK, Range
    <2>5. RemovalInv'
      BY <1>0, <2>2, <2>4, Zenon DEF OwnInv, EdsInv, RemovalInv
    <2> QED BY <2>1, <2>3, <2>5 DEF OwnInv, EdsInv
  <1>3. CASE HcRetire
    <2>0. PICK ed \in Units : ed = hcEd
      BY <1>3 DEF HcRetire, TypeInv, HcOK, Units, Ptr
    <2>t. PICK t : t = Head(queue[ed])
      OBVIOUS
    <2> DEFINE q == <<"ed", ed>>
               h == <<"hc", 0>>
    <2>1. queue[ed] # <<>> /\ queue[ed] \in Seq(Ptr) /\ hcDone \in Seq(Ptr)
      BY <1>3, <2>0 DEF HcRetire, TypeInv, HcOK, MemOK, Units, Ptr
    <2>2. /\ hcDone' = <<t>> \o hcDone /\ queue' = [queue EXCEPT ![ed] = Tail(queue[ed])]
          /\ hcEd' = 0
          /\ UNCHANGED <<info, used, skip, list, hwPipe, removeList, mpc, mep, med, mtds, sfEn, sf,
                         ipc, hccaDone, work>>
      BY <1>3, <2>0, <2>t DEF HcRetire, links, isr, main
    <2>a. queue \in [Units -> Seq(Ptr)] /\ t \in Ptr
      BY <2>1, <2>t DEF TypeInv, MemOK
    <2>b. queue'[ed] = Tail(queue[ed]) /\ \A u \in Units \ {ed} : queue'[u] = queue[u]
      BY <2>1, <2>2, <2>a
    <2>3. q \in Spots /\ h \in Spots /\ q # h
      BY <2>1, SpotsAre
    <2>4. /\ Chain(q) = queue[ed] /\ Chain(h) = hcDone
          /\ Chain(q)' = Tail(queue[ed]) /\ Chain(h)' = <<t>> \o hcDone
      BY <2>1, <2>2, <2>b, ChainIs
    <2>6. \A p \in Spots \ {q, h} : Chain(p)' = Chain(p)
      BY <2>2, <2>b, ChainsSame
    <2> HIDE DEF q, h
    <2>7. NoDup(queue[ed]) /\ NoDup(hcDone) /\ TdsOn(q) \cap TdsOn(h) = {}
      BY <2>3, <2>4 DEF OwnInv, ChainsInv
    <2>8. /\ TdsOn(q) = Range(queue[ed]) /\ TdsOn(h) = Range(hcDone)
          /\ TdsOn(q)' = Range(Tail(queue[ed])) /\ TdsOn(h)' = Range(<<t>> \o hcDone)
      BY <2>4 DEF TdsOn
    <2>c. /\ NoDup(Tail(queue[ed])) /\ Range(Tail(queue[ed])) = Range(queue[ed]) \ {t}
          /\ t \in Range(queue[ed])
      BY <2>1, <2>t, <2>7, NoDupTail
    <2>d. NoDup(<<t>> \o hcDone) /\ Range(<<t>> \o hcDone) = Range(hcDone) \cup {t}
      BY <2>1, <2>a, <2>7, <2>8, <2>c, NoDupCons
    <2>e. \A p \in Spots \ {q, h} : NoDup(Chain(p)') /\ TdsOn(p)' \subseteq TdsOn(p)
      BY <2>6 DEF OwnInv, ChainsInv, TdsOn
    <2>f. /\ TdsOn(q)' \cup TdsOn(h)' \subseteq TdsOn(q) \cup TdsOn(h) \cup {}
          /\ TdsOn(q)' \cap TdsOn(h)' = {}
      BY <2>7, <2>8, <2>c, <2>d
    <2>9. ChainsInv' /\ AllTds' \subseteq AllTds \cup {}
      <3>1. NoDup(Chain(q)') /\ NoDup(Chain(h)')
        BY <2>4, <2>c, <2>d
      <3> QED BY <2>3, <2>e, <2>f, <3>1, ChainsMove DEF OwnInv
    <2>10. TdsInv'
      BY <2>2, <2>9 DEF OwnInv, TdsInv
    <2>11. info[ed] # None
      BY <1>0, <2>0 DEF OwnInv, EdsInv, ServedInv, Units
    <2>12. MemInv' /\ ListInv'
      BY <2>1, <2>2, <2>11 DEF OwnInv, EdsInv, MemInv, ListInv, TypeInv, MemOK
    <2>13. PipeInv' /\ ServedInv' /\ MedInv' /\ KindInv'
      BY <2>2 DEF OwnInv, EdsInv, PipeInv, Settled, ServedInv, MedInv, FreshEd, KindInv
    <2>14. Range(removeList) \subseteq Units
      BY DEF TypeInv, LinksOK, Range
    <2>15. RemovalInv'
      BY <1>0, <2>2, <2>14, Zenon DEF OwnInv, EdsInv, RemovalInv
    <2> QED BY <2>9, <2>10, <2>12, <2>13, <2>15 DEF OwnInv, EdsInv
  <1>4. CASE HcFrame
    <2> DEFINE h == <<"hc", 0>>
               c == <<"hcca", 0>>
    <2>1. UNCHANGED <<info, used, skip, queue, list, hwPipe, removeList, mpc, mep, med, mtds, sfEn,
                      ipc, work>> /\ hcEd = 0 /\ hcEd' = 0
      BY <1>4, Zenon DEF HcFrame, mem, links, isr
    <2>2. \/ hccaDone' = hcDone /\ hcDone' = <<>>
          \/ hccaDone' = hccaDone /\ hcDone' = hcDone
      BY <1>4, Zenon DEF HcFrame
    <2>3. h \in Spots /\ c \in Spots /\ h # c
      BY SpotsAre
    <2>4. \A p \in Spots \ {h, c} : Chain(p)' = Chain(p)
      BY <2>1, SpotsAre, ChainIs
    <2>5. \A p \in Spots \ {h, c} : NoDup(Chain(p)') /\ TdsOn(p)' \subseteq TdsOn(p)
      BY <2>4 DEF OwnInv, ChainsInv, TdsOn
    <2>6. /\ NoDup(Chain(h)') /\ NoDup(Chain(c)') /\ TdsOn(h)' \cap TdsOn(c)' = {}
          /\ TdsOn(h)' \cup TdsOn(c)' \subseteq TdsOn(h) \cup TdsOn(c) \cup {}
      <3>1. NoDup(Chain(h)) /\ NoDup(Chain(c)) /\ TdsOn(h) \cap TdsOn(c) = {}
        BY <2>3 DEF OwnInv, ChainsInv
      <3> QED BY <2>2, <3>1, ChainIs, NoDupEmpty DEF TdsOn
    <2> HIDE DEF h, c
    <2>7. ChainsInv' /\ AllTds' \subseteq AllTds \cup {}
      BY <2>3, <2>5, <2>6, ChainsMove DEF OwnInv
    <2>8. TdsInv' /\ MemInv' /\ ListInv'
      BY <2>1, <2>7 DEF OwnInv, TdsInv, EdsInv, MemInv, ListInv
    <2>9. PipeInv' /\ ServedInv' /\ MedInv' /\ KindInv'
      BY <2>1 DEF OwnInv, EdsInv, PipeInv, Settled, ServedInv, MedInv, FreshEd, KindInv
    <2>10. Range(removeList) \subseteq Units
      BY DEF TypeInv, LinksOK, Range
    <2>11. RemovalInv'
      BY <1>0, <2>1, <2>10, Zenon DEF OwnInv, EdsInv, RemovalInv
    <2> QED BY <2>7, <2>8, <2>9, <2>11 DEF OwnInv, EdsInv
  <1> QED BY <1>1, <1>2, <1>3, <1>4 DEF Hc

-----------------------------------------------------------------------------
(* OHCI_IRQHandler.                                                        *)

\* Off the remove list there is nothing to say about it.
LEMMA RemovalIdle ==
    ASSUME RemoveInv', mpc' \notin {"arm", "delay"}
    PROVE  RemovalInv'
  <1>1. removeList' = <<>>
    BY Zenon DEF RemoveInv
  <1> QED BY <1>1, NoDupEmpty DEF RemovalInv

\* Units go back to the pool with the chains they carry, and no TD of another
\* chain is among them.
LEMMA FreeOwn ==
    ASSUME TypeInv, OwnInv, NEW S, FreeUnits(S), med' = med \/ med' = 0,
           \A p \in Spots : (\A u \in Units : p # <<"ed", u>>)
               => NoDup(Chain(p)') /\ TdsOn(p)' \subseteq TdsOn(p) \ S,
           \A u \in Units \ S : TdsOn(<<"ed", u>>) \cap S = {}
    PROVE  ChainsInv' /\ TdsInv' /\ MemInv'
  <1>1. /\ \A u \in Units : queue'[u] = IF u \in S THEN <<>> ELSE queue[u]
        /\ \A u \in Units : info'[u] = IF u \in S THEN None ELSE info[u]
        /\ \A u \in Units : used'[u] <=> used[u] /\ u \notin S
    BY DEF FreeUnits
  <1>2. ASSUME NEW u \in Units
        PROVE  /\ NoDup(Chain(<<"ed", u>>)')
               /\ TdsOn(<<"ed", u>>)' \subseteq TdsOn(<<"ed", u>>) \ S
    <2>1. <<"ed", u>> \in Spots /\ Chain(<<"ed", u>>) = queue[u]
      BY SpotsAre, ChainIs
    <2>2. Chain(<<"ed", u>>)' = queue'[u]
      BY ChainIs
    <2>3. CASE u \in S
      BY <1>1, <2>2, <2>3, NoDupEmpty DEF TdsOn
    <2>4. CASE u \notin S
      <3>1. Chain(<<"ed", u>>)' = Chain(<<"ed", u>>)
        BY <1>1, <2>1, <2>2, <2>4
      <3>2. TdsOn(<<"ed", u>>)' = TdsOn(<<"ed", u>>)
        BY <3>1 DEF TdsOn
      <3> QED BY <2>1, <2>4, <3>1, <3>2 DEF OwnInv, ChainsInv
    <2> QED BY <2>3, <2>4
  <1>3. \A p \in Spots : NoDup(Chain(p)') /\ TdsOn(p)' \subseteq TdsOn(p) \ S
    BY <1>2
  <1>4. ChainsInv'
    <2>1. ASSUME NEW p \in Spots, NEW q \in Spots, p # q
          PROVE  TdsOn(p)' \cap TdsOn(q)' = {}
      <3>1. TdsOn(p) \cap TdsOn(q) = {}
        BY <2>1 DEF OwnInv, ChainsInv
      <3> QED BY <1>3, <3>1
    <2> QED BY <1>3, <2>1 DEF ChainsInv, Spots
  <1>5. AllTds' \subseteq AllTds \ S
    BY <1>3 DEF AllTds, Spots
  <1>6. TdsInv'
    <2>1. ASSUME NEW t \in AllTds' PROVE t \in Units /\ used'[t] /\ info'[t] = None /\ t # med'
      <3>1. t \in Units /\ used[t] /\ info[t] = None /\ t # med /\ t \notin S
        BY <1>5, <2>1 DEF OwnInv, TdsInv
      <3> QED BY <1>1, <3>1 DEF Units
    <2> QED BY <2>1 DEF TdsInv
  <1>7. MemInv'
    BY <1>1 DEF OwnInv, EdsInv, MemInv
  <1> QED BY <1>4, <1>6, <1>7

\* Units that go back are TDs, or an ED for no endpoint the rest refers to.
LEMMA FreeEds ==
    ASSUME TypeInv, OwnInv, NEW S, FreeUnits(S), NEW x,
           \A u \in S \cap Units : info[u] = None \/ info[u] = x,
           \A k \in Kinds : list'[k] \subseteq list[k] /\ (x \in Eps => list'[k] \cap S = {}),
           UNCHANGED <<hwPipe, hcEd>>, hcEd = 0 \/ info[hcEd] # x \/ hcEd \notin S
    PROVE  /\ ListInv' /\ ServedInv'
           /\ \A e \in Eps \ {x} : hwPipe[e] # 0 /\ info[hwPipe[e]] = e => info'[hwPipe'[e]] = e
  <1>0. 0 \notin Units /\ None \notin Eps
    BY ConstAssumption DEF Units
  <1>1. \A u \in Units : info'[u] = IF u \in S THEN None ELSE info[u]
    BY DEF FreeUnits
  <1>2. ListInv'
    <2>1. ASSUME NEW k \in Kinds, NEW u \in list'[k] PROVE info'[u] \in Eps /\ Kind[info'[u]] = k
      <3>1. u \in Units /\ info[u] \in Eps /\ Kind[info[u]] = k
        BY <2>1 DEF OwnInv, EdsInv, ListInv, TypeInv, LinksOK
      <3>2. u \notin S
        BY <1>0, <3>1
      <3> QED BY <1>1, <3>1, <3>2
    <2> QED BY <2>1 DEF ListInv
  <1>3. ServedInv'
    <2>1. hcEd # 0 => hcEd \in Units /\ info[hcEd] # None
      BY DEF OwnInv, EdsInv, ServedInv, TypeInv, HcOK, Ptr, Units
    <2> QED BY <1>1, <2>1 DEF ServedInv
  <1>4. ASSUME NEW e \in Eps \ {x}, hwPipe[e] # 0 /\ info[hwPipe[e]] = e
        PROVE  info'[hwPipe'[e]] = e
    <2>1. hwPipe[e] \in Units
      BY <1>4 DEF TypeInv, LinksOK, Ptr, Units
    <2> QED BY <1>0, <1>1, <1>4, <2>1
  <1> QED BY <1>2, <1>3, <1>4

\* A pipe that leads to an ED leads to an allocated one.
LEMMA PipeFacts ==
    ASSUME TypeInv, OwnInv, NEW e \in Eps, hwPipe[e] # 0, Settled(e)
    PROVE  hwPipe[e] \in Units /\ info[hwPipe[e]] = e /\ used[hwPipe[e]]
  <1>1. hwPipe[e] \in Units /\ info[hwPipe[e]] = e
    BY DEF OwnInv, EdsInv, PipeInv, TypeInv, LinksOK, Ptr, Units
  <1> QED BY <1>1, ConstAssumption DEF OwnInv, EdsInv, MemInv

\* ohci_int_xfer allocates what it links: an ED that is found gets a TD at the
\* end of its queue, a new ED a queue of two.
LEMMA IntXferOwn ==
    ASSUME TypeInv, OwnInv, RemoveInv, NEW r \in Utrs, NEW e \in Eps, Kind[e] = "int",
           IntXferFail(e) \/ (~IntXferFails(e) /\ IntXferOk(r, e)),
           UNCHANGED <<removeList, hcDone, hccaDone, work, mtds, med, mpc, mep, hcEd, sfEn, sf>>,
           ipc' = ipc \/ ipc' # "remove"
    PROVE  OwnInv'
  <1>0. 0 \notin Units /\ None \notin Eps
    BY ConstAssumption DEF Units
  <1>a. used \in [Units -> BOOLEAN] /\ queue \in [Units -> Seq(Ptr)]
        /\ info \in [Units -> Eps \cup {None}] /\ list \in [Kinds -> SUBSET Units]
        /\ hwPipe \in [Eps -> Ptr]
    BY DEF TypeInv, MemOK, LinksOK
  <1>b. ASSUME NEW us \in [Units -> BOOLEAN], NEW u
        PROVE  Taken(us, u) \in [Units -> BOOLEAN]
    BY DEF Taken
  <1>c. KindInv'
    BY DEF OwnInv, EdsInv, KindInv
  <1>d. ASSUME \A u \in Range(removeList) : info'[u] = info[u] /\ skip'[u] = skip[u]
        PROVE  RemovalInv'
    <2>1. ipc' = "remove" => ipc = "remove"
      OBVIOUS
    <2> QED BY <1>d, <2>1, Zenon DEF OwnInv, EdsInv, RemovalInv
  <1>e. Range(removeList) \subseteq Units
    BY DEF TypeInv, LinksOK, Range
  <1>f. \A u \in Range(removeList) : info[u] # None
    <2>1. Range(removeList) # {} => mpc # "idle"
      BY NoDupEmpty, Zenon DEF RemoveInv
    <2>2. Range(removeList) # {} => mep \in Eps
      BY <2>1 DEF TypeInv
    <2> QED BY <1>0, <2>2, Zenon DEF OwnInv, EdsInv, RemovalInv
  <1>g. med # 0 => med \in Units /\ used[med]
    BY <1>0 DEF OwnInv, EdsInv, MedInv, TypeInv, MainOK, Ptr, Units
  <1>1. CASE IntXferFail(e)
    <2>1. UNCHANGED <<info, skip, queue, list, hwPipe>>
      BY <1>1 DEF IntXferFail
    <2>2. \A u \in Units : used[u] => used'[u]
      BY <1>1, <1>a DEF IntXferFail, Taken
    <2>3. ChainsInv' /\ AllTds' = AllTds
      BY <2>1, ChainsStay DEF OwnInv
    <2>4. TdsInv'
      BY <2>1, <2>2, <2>3 DEF OwnInv, TdsInv
    <2>5. MemInv' /\ ListInv' /\ PipeInv' /\ ServedInv'
      BY <2>1, <2>2 DEF OwnInv, EdsInv, MemInv, ListInv, PipeInv, Settled, ServedInv
    <2>6. MedInv'
      BY <1>g, <2>1, <2>2 DEF OwnInv, EdsInv, MedInv, FreshEd
    <2> QED BY <1>c, <1>d, <2>1, <2>3, <2>4, <2>5, <2>6 DEF OwnInv, EdsInv
  <1>2. CASE ~IntXferFails(e) /\ IntXferOk(r, e) /\ EdOf(e) # {}
    <2>1. PICK ed : /\ ed \in EdOf(e)
                    /\ used' = Taken(used, IntNew)
                    /\ queue' = [queue EXCEPT ![ed] = Append(@, IntNew)]
                    /\ hwPipe' = [hwPipe EXCEPT ![e] = ed]
                    /\ UNCHANGED <<info, skip, halt, list>>
      BY <1>2 DEF IntXferOk
    <2>2. ed \in Units /\ info[ed] = e /\ used[ed]
      BY <1>0, <1>a, <2>1, ConstAssumption DEF EdOf, OwnInv, EdsInv, MemInv
    <2>3. PICK n : n = IntNew
      OBVIOUS
    <2>4. n \in Units /\ ~used[n] /\ info[n] = None /\ n \notin AllTds
      BY <1>2, <1>a, <2>3, FreshUnit DEF IntNew, IntXferFails
    <2> DEFINE q == <<"ed", ed>>
    <2>5. q \in Spots
      BY <2>2, SpotsAre
    <2>6. queue[ed] \in Seq(Ptr) /\ n \in Ptr
      BY <1>a, <2>2, <2>4 DEF Units, Ptr
    <2>7. queue'[ed] = Append(queue[ed], n) /\ \A u \in Units \ {ed} : queue'[u] = queue[u]
      BY <1>a, <2>1, <2>2, <2>3
    <2>8. Chain(q) = queue[ed] /\ Chain(q)' = Append(queue[ed], n)
      BY <2>2, <2>7, ChainIs
    <2>9. \A p \in Spots \ {q} : Chain(p)' = Chain(p) /\ TdsOn(p)' = TdsOn(p)
      BY <2>7, ChainsSame
    <2> HIDE DEF q
    <2>10. NoDup(queue[ed]) /\ TdsOn(q) = Range(queue[ed]) /\ TdsOn(q)' = Range(Append(queue[ed], n))
           /\ TdsOn(q) \subseteq AllTds
      BY <2>5, <2>8 DEF OwnInv, ChainsInv, TdsOn, AllTds
    <2>11. NoDup(Append(queue[ed], n)) /\ Range(Append(queue[ed], n)) = Range(queue[ed]) \cup {n}
      <3>1. n \notin Range(queue[ed])
        BY <2>4, <2>10
      <3>2. PICK s \in Seq(Ptr) : s = queue[ed]
        BY <2>6
      <3>3. NoDup(s) /\ n \in Ptr /\ n \notin Range(s)
        BY <2>6, <2>10, <3>1, <3>2
      <3>4. PICK a : a = Append(s, n)
        OBVIOUS
      <3>5. NoDup(a) /\ Range(a) = Range(s) \cup {n}
        BY <3>3, <3>4, NoDupAppend
      <3> QED BY <3>2, <3>4, <3>5
    <2>12. ChainsInv' /\ AllTds' \subseteq AllTds \cup {n}
      <3>1. NoDup(Chain(q)') /\ TdsOn(q)' \subseteq TdsOn(q) \cup {n}
        BY <2>8, <2>10, <2>11
      <3>2. {n} \cap AllTds = {}
        BY <2>4
      <3> QED BY <2>5, <2>9, <3>1, <3>2, ChainGrows DEF OwnInv
    <2>13. \A u \in Units : used'[u] <=> used[u] \/ u = n
      BY <1>a, <2>1, <2>3 DEF Taken
    <2>14. TdsInv'
      <3>1. n # med
        BY <1>g, <2>4 DEF Units
      <3> QED BY <2>1, <2>4, <2>12, <2>13, <3>1 DEF OwnInv, TdsInv
    <2>15. MemInv' /\ ListInv' /\ ServedInv'
      BY <1>0, <2>1, <2>2, <2>7, <2>13 DEF OwnInv, EdsInv, MemInv, ListInv, ServedInv
    <2>16. PipeInv'
      BY <1>a, <2>1, <2>2 DEF OwnInv, EdsInv, PipeInv, Settled
    <2>17. MedInv'
      <3>1. mpc = "ctrl_link" => mep # e
        BY DEF OwnInv, EdsInv, KindInv
      <3>2. FreshEd => FreshEd'
        BY <1>a, <2>1, <3>1 DEF FreshEd, TypeInv
      <3>3. med # 0 => used'[med] /\ info'[med] = info[med]
        BY <1>g, <2>1, <2>13
      <3> QED BY <3>2, <3>3 DEF OwnInv, EdsInv, MedInv
    <2> QED BY <1>c, <1>d, <2>1, <2>12, <2>14, <2>15, <2>16, <2>17 DEF OwnInv, EdsInv
  <1>3. CASE ~IntXferFails(e) /\ IntXferOk(r, e) /\ EdOf(e) = {}
    <2>1. PICK n, ed, d : n = IntNew /\ ed = IntNewEd /\ d = IntNewTd
      OBVIOUS
    <2>2. n # 0 /\ ed # 0 /\ d # 0
      BY <1>3, <2>1 DEF IntXferFails
    <2>3. PICK us \in [Units -> BOOLEAN], ut \in [Units -> BOOLEAN] :
             us = Taken(used, n) /\ ut = Taken(us, ed)
      BY <1>a, <1>b
    <2>4. /\ n = FirstFree(used) /\ ed = FirstFree(us) /\ d = FirstFree(ut)
      BY <2>1, <2>3 DEF IntNew, IntNewEd, IntNewTd
    <2>5. /\ \A u \in Units : us[u] <=> used[u] \/ u = n
          /\ \A u \in Units : ut[u] <=> used[u] \/ u = n \/ u = ed
      BY <1>a, <2>3 DEF Taken
    <2>6. n \in Units /\ ~used[n] /\ info[n] = None /\ n \notin AllTds
      BY <1>a, <2>2, <2>4, FreshUnit
    <2>7. ed \in Units /\ ~us[ed] /\ ~used[ed] /\ info[ed] = None /\ ed \notin AllTds
          /\ \A k \in Kinds : ed \notin list[k]
      BY <2>2, <2>4, <2>5, FreshUnit
    <2>8. d \in Units /\ ~ut[d] /\ ~used[d] /\ info[d] = None /\ d \notin AllTds
      BY <2>2, <2>4, <2>5, FreshUnit
    <2>9. n # ed /\ d # n /\ d # ed
      BY <2>5, <2>6, <2>7, <2>8
    <2>10. /\ used' = Taken(ut, d) /\ info' = [info EXCEPT ![ed] = e]
           /\ queue' = [queue EXCEPT ![ed] = <<d, n>>]
           /\ hwPipe' = [hwPipe EXCEPT ![e] = ed]
           /\ list' = [list EXCEPT !["int"] = @ \cup {ed}] /\ UNCHANGED skip
      BY <1>3, <2>1, <2>3 DEF IntXferOk
    <2>11. /\ \A u \in Units : used'[u] <=> used[u] \/ u = n \/ u = ed \/ u = d
           /\ \A u \in Units : info'[u] = IF u = ed THEN e ELSE info[u]
           /\ \A u \in Units : queue'[u] = IF u = ed THEN <<d, n>> ELSE queue[u]
      <3>1. \A u \in Units : used'[u] <=> ut[u] \/ u = d
        BY <2>10 DEF Taken
      <3> QED BY <1>a, <2>5, <2>10, <3>1
    <2> DEFINE q == <<"ed", ed>>
    <2>12. q \in Spots
      BY <2>7, SpotsAre
    <2>13. Chain(q)' = <<d, n>>
      BY <2>7, <2>11, ChainIs
    <2>14. \A p \in Spots \ {q} : Chain(p)' = Chain(p) /\ TdsOn(p)' = TdsOn(p)
      BY <2>11, ChainsSame
    <2> HIDE DEF q
    <2>15. NoDup(<<d, n>>) /\ Range(<<d, n>>) = {d, n}
      BY <2>9 DEF NoDup, Range
    <2>16. ChainsInv' /\ AllTds' \subseteq AllTds \cup {d, n}
      <3>1. NoDup(Chain(q)') /\ TdsOn(q)' \subseteq TdsOn(q) \cup {d, n}
        BY <2>13, <2>15 DEF TdsOn
      <3>2. {d, n} \cap AllTds = {}
        BY <2>6, <2>8
      <3> QED BY <2>12, <2>14, <3>1, <3>2, ChainGrows DEF OwnInv
    <2>17. TdsInv'
      <3>1. n # med /\ d # med
        BY <1>g, <2>6, <2>8 DEF Units
      <3> QED BY <2>6, <2>7, <2>8, <2>9, <2>11, <2>16, <3>1 DEF OwnInv, TdsInv
    <2>18. MemInv'
      BY <1>0, <2>7, <2>9, <2>11 DEF OwnInv, EdsInv, MemInv
    <2>19. ListInv'
      <3>1. ASSUME NEW k \in Kinds, NEW u \in list'[k] PROVE info'[u] \in Eps /\ Kind[info'[u]] = k
        <4>1. CASE u = ed
          <5>1. k = "int"
            BY <1>a, <2>7, <2>10, <3>1, <4>1
          <5> QED BY <2>7, <2>11, <4>1, <5>1
        <4>2. CASE u # ed
          <5>1. u \in list[k] /\ u \in Units
            BY <1>a, <2>10, <3>1, <4>2
          <5> QED BY <2>11, <4>2, <5>1 DEF OwnInv, EdsInv, ListInv
        <4> QED BY <4>1, <4>2
      <3> QED BY <3>1 DEF ListInv
    <2>20. ServedInv'
      <3>1. hcEd # 0 => hcEd \in Units
        BY DEF TypeInv, HcOK, Ptr, Units
      <3> QED BY <1>0, <2>11, <3>1 DEF OwnInv, EdsInv, ServedInv
    <2>21. PipeInv'
      <3>1. ASSUME NEW f \in Eps, Settled(f), hwPipe'[f] # 0 PROVE info'[hwPipe'[f]] = f
        <4>1. CASE f = e
          BY <1>a, <2>7, <2>10, <2>11, <4>1
        <4>2. CASE f # e
          <5>1. hwPipe'[f] = hwPipe[f]
            BY <1>a, <2>10, <4>2
          <5>2. hwPipe[f] \in Units /\ info[hwPipe[f]] = f
            BY <3>1, <5>1, PipeFacts
          <5> QED BY <1>0, <2>7, <2>11, <5>1, <5>2
        <4> QED BY <4>1, <4>2
      <3> QED BY <3>1 DEF PipeInv, Settled
    <2>22. MedInv'
      <3>1. mpc = "ctrl_link" => mep # e
        BY DEF OwnInv, EdsInv, KindInv
      <3>2. med # 0 => med # ed /\ used'[med] /\ info'[med] = info[med]
        BY <1>g, <2>7, <2>11
      <3>3. FreshEd /\ med # 0 => FreshEd'
        BY <1>a, <2>10, <3>1, <3>2 DEF FreshEd, TypeInv
      <3> QED BY <3>2, <3>3 DEF OwnInv, EdsInv, MedInv
    <2>23. RemovalInv'
      BY <1>d, <1>e, <1>f, <2>7, <2>10, <2>11
    <2> QED BY <1>c, <2>16, <2>17, <2>18, <2>19, <2>20, <2>21, <2>22, <2>23 DEF OwnInv, EdsInv
  <1> QED BY <1>1, <1>2, <1>3

LEMMA OwnIsr ==
    ASSUME TypeInv, RemoveInv, RemoveInv', OwnInv, Isr
    PROVE  OwnInv'
  <1>0. 0 \notin Units /\ None \notin Eps
    BY ConstAssumption DEF Units
  <1>a. ASSUME UNCHANGED <<info, hwPipe, mpc, mep, med, hcEd, used>>
        PROVE  PipeInv' /\ ServedInv' /\ MedInv' /\ KindInv'
    BY <1>a DEF OwnInv, EdsInv, PipeInv, Settled, ServedInv, MedInv, FreshEd, KindInv
  <1>b. ASSUME UNCHANGED <<info, skip, mep, hcEd, removeList>>,
               (sfEn' /\ sf') \/ ipc' = "remove" => (sfEn /\ sf) \/ ipc = "remove"
        PROVE  RemovalInv'
    BY <1>b, Zenon DEF OwnInv, EdsInv, RemovalInv
  <1>1. CASE IsrEnter
    <2>1. UNCHANGED <<used, info, skip, queue, list, hwPipe, removeList, mpc, mep, med, mtds,
                      hcEd, hcDone, hccaDone, work>>
      BY <1>1, Zenon DEF IsrEnter, mem, links, main
    <2>2. (sfEn' /\ sf') \/ ipc' = "remove" => (sfEn /\ sf) \/ ipc = "remove"
      BY <1>1, Zenon DEF IsrEnter
    <2>3. ChainsInv' /\ TdsInv' /\ MemInv' /\ ListInv'
      BY <2>1, StayOwn, Zenon
    <2> QED BY <1>a, <1>b, <2>1, <2>2, <2>3, Zenon DEF OwnInv, EdsInv
  <1>2. CASE RemoveEd
    <2>1. PICK ed \in Units : ed = Head(removeList)
      BY <1>2 DEF RemoveEd, TypeInv, LinksOK
    <2>2. ipc = "remove" /\ removeList # <<>> /\ removeList \in Seq(Units)
      BY <1>2 DEF RemoveEd, TypeInv, LinksOK
    <2>3. /\ UNCHANGED <<hwPipe, mpc, mep, med, mtds, hcEd, hcDone, hccaDone, work>>
          /\ removeList' = Tail(removeList)
      BY <1>2, Zenon DEF RemoveEd, hc, isr, main
    <2>4. PICK S : /\ FreeUnits(S)
                   /\ \/ S = UnitsUnder(ed) /\ list' = Unlinked(ed)
                      \/ S = {ed} /\ list' = list /\ ed \notin list[Kind[info[ed]]]
      BY <1>2, <2>1 DEF RemoveEd
    <2>5. mpc = "delay" /\ Len(removeList) <= 1
      BY <2>2, Zenon DEF RemoveInv
    <2>6. removeList' = <<>>
      BY <2>2, <2>3, <2>5
    <2>7. RemovalInv'
      BY <2>6, NoDupEmpty DEF RemovalInv
    <2>8. ed \in Range(removeList)
      BY <2>1, <2>2 DEF Range
    <2>9. info[ed] = mep /\ hcEd # ed
      BY <2>2, <2>8, Zenon DEF OwnInv, EdsInv, RemovalInv
    <2>10. mep \in Eps /\ Kind[mep] \in Kinds
      BY <2>5, ConstAssumption DEF TypeInv
    <2>11. med = 0
      BY <2>5 DEF OwnInv, EdsInv, MedInv
    <2> DEFINE q == <<"ed", ed>>
    <2>12. q \in Spots /\ Chain(q) = queue[ed] /\ TdsOn(q) = Range(queue[ed])
      BY SpotsAre, ChainIs DEF TdsOn
    <2>13. \A p \in Spots \ {q} : TdsOn(p) \cap TdsOn(q) = {}
      BY <2>12 DEF OwnInv, ChainsInv
    <2>14. \A p \in Spots : ed \notin TdsOn(p)
      BY <1>0, <2>9, <2>10 DEF OwnInv, TdsInv, AllTds
    <2>15. S \subseteq TdsOn(q) \cup {ed} /\ ed \in S
      BY <2>4, <2>12 DEF UnitsUnder
    <2>16. \A p \in Spots \ {q} : TdsOn(p) \cap S = {}
      BY <2>13, <2>14, <2>15
    <2>17. ChainsInv' /\ TdsInv' /\ MemInv'
      <3>1. ASSUME NEW p \in Spots, \A u \in Units : p # <<"ed", u>>
            PROVE  NoDup(Chain(p)') /\ TdsOn(p)' \subseteq TdsOn(p) \ S
        <4>1. p # q /\ Chain(p)' = Chain(p) /\ TdsOn(p)' = TdsOn(p)
          BY <2>3, <3>1, ChainsSame
        <4> QED BY <2>16, <3>1, <4>1 DEF OwnInv, ChainsInv
      <3>2. \A u \in Units \ S : TdsOn(<<"ed", u>>) \cap S = {}
        BY <2>15, <2>16, SpotsAre
      <3> QED BY <2>3, <2>4, <3>1, <3>2, FreeOwn
    <2>18. \A u \in S \cap Units : info[u] = None \/ info[u] = mep
      BY <2>9, <2>12, <2>15 DEF OwnInv, TdsInv, AllTds
    <2>19. \A k \in Kinds : list'[k] \subseteq list[k] /\ ed \notin list'[k]
      BY <2>4, <2>9, <2>10 DEF Unlinked, OwnInv, EdsInv, ListInv, TypeInv, LinksOK
    <2>20. \A k \in Kinds : list'[k] \cap S = {}
      <3>1. ASSUME NEW k \in Kinds, NEW u \in list[k] PROVE u \notin TdsOn(q)
        BY <1>0, <2>12 DEF OwnInv, TdsInv, AllTds, EdsInv, ListInv
      <3> QED BY <2>15, <2>19, <3>1
    <2>21. hcEd \in S => info[hcEd] = None
      BY <2>9, <2>12, <2>15 DEF OwnInv, TdsInv, AllTds
    <2>22. /\ ListInv' /\ ServedInv'
           /\ \A e \in Eps \ {mep} : hwPipe[e] # 0 /\ info[hwPipe[e]] = e => info'[hwPipe'[e]] = e
      <3>1. PICK x : x = mep
        OBVIOUS
      <3>2. hcEd = 0 \/ info[hcEd] # x \/ hcEd \notin S
        BY <1>0, <2>10, <2>21, <3>1
      <3>3. \A k \in Kinds : list'[k] \subseteq list[k] /\ (x \in Eps => list'[k] \cap S = {})
        BY <2>19, <2>20
      <3>4. UNCHANGED <<hwPipe, hcEd>> /\ \A u \in S \cap Units : info[u] = None \/ info[u] = x
        BY <2>3, <2>18, <3>1
      <3>5. /\ ListInv' /\ ServedInv'
            /\ \A e \in Eps \ {x} : hwPipe[e] # 0 /\ info[hwPipe[e]] = e => info'[hwPipe'[e]] = e
        BY <2>4, <3>2, <3>3, <3>4, FreeEds
      <3> QED BY <3>1, <3>5
    <2>23. PipeInv'
      BY <2>3, <2>5, <2>22 DEF OwnInv, EdsInv, PipeInv, Settled
    <2>24. MedInv' /\ KindInv'
      BY <2>3, <2>5, <2>11 DEF MedInv, KindInv
    <2> QED BY <2>7, <2>17, <2>22, <2>23, <2>24 DEF OwnInv, EdsInv
  <1>3. CASE RemoveDone
    <2>1. UNCHANGED <<used, info, skip, queue, list, hwPipe, removeList, mpc, mep, med, mtds,
                      hcEd, hcDone, hccaDone, work>> /\ removeList = <<>>
      BY <1>3, Zenon DEF RemoveDone, mem, links, main
    <2>2. ChainsInv' /\ TdsInv' /\ MemInv' /\ ListInv'
      BY <2>1, StayOwn, Zenon
    <2>3. RemovalInv'
      BY <2>1, NoDupEmpty DEF RemovalInv
    <2> QED BY <1>a, <2>1, <2>2, <2>3, Zenon DEF OwnInv, EdsInv
  <1>4. CASE TakeDoneList
    <2>1. /\ UNCHANGED <<used, info, skip, queue, list, hwPipe, removeList, mpc, mep, med, mtds,
                         hcEd, hcDone, sfEn, sf>>
          /\ work' = Reverse(hccaDone) /\ hccaDone' = <<>> /\ ipc' # "remove"
      BY <1>4, Zenon DEF TakeDoneList, mem, links, main
    <2> DEFINE c == <<"hcca", 0>>
               i == <<"isr", 0>>
    <2>2. c \in Spots /\ i \in Spots /\ c # i
      BY SpotsAre
    <2>3. \A p \in Spots \ {c, i} : Chain(p)' = Chain(p) /\ TdsOn(p)' = TdsOn(p)
      BY <2>1, ChainsSame
    <2>4. Chain(c) = hccaDone /\ Chain(c)' = <<>> /\ Chain(i)' = Reverse(hccaDone)
      BY <2>1, ChainIs
    <2> HIDE DEF c, i
    <2>5. hccaDone \in Seq(Ptr) /\ NoDup(hccaDone)
      BY <2>2, <2>4 DEF OwnInv, ChainsInv, TypeInv, HcOK
    <2>6. NoDup(Reverse(hccaDone)) /\ Range(Reverse(hccaDone)) = Range(hccaDone)
      BY <2>5, NoDupReverse
    <2>7. /\ NoDup(Chain(c)') /\ NoDup(Chain(i)') /\ TdsOn(c)' = {} /\ TdsOn(i)' = TdsOn(c)
      BY <2>4, <2>6, NoDupEmpty DEF TdsOn
    <2>8. \A p \in Spots \ {c, i} : NoDup(Chain(p)') /\ TdsOn(p)' \subseteq TdsOn(p)
      BY <2>3 DEF OwnInv, ChainsInv
    <2>9. ChainsInv' /\ AllTds' \subseteq AllTds \cup {}
      BY <2>2, <2>7, <2>8, ChainsMove DEF OwnInv
    <2>10. TdsInv' /\ MemInv' /\ ListInv'
      BY <2>1, <2>9 DEF OwnInv, TdsInv, EdsInv, MemInv, ListInv
    <2> QED BY <1>a, <1>b, <2>1, <2>9, <2>10, Zenon DEF OwnInv, EdsInv
  <1>5. CASE TdDone
    <2>1. /\ UNCHANGED <<used, info, skip, queue, list, hwPipe, removeList, mpc, mep, med, mtds,
                         hcEd, hcDone, hccaDone, work, sfEn, sf>>
          /\ ipc' # "remove"
      BY <1>5, Zenon DEF TdDone, mem, links, hc, main
    <2>2. ChainsInv' /\ TdsInv' /\ MemInv' /\ ListInv'
      BY <2>1, StayOwn, Zenon
    <2> QED BY <1>a, <1>b, <2>1, <2>2, Zenon DEF OwnInv, EdsInv
  <1>6. CASE TdDoneResubmit
    <2>1. PICK td : td = Head(work)
      OBVIOUS
    <2>2. PICK r : r = tdUtr[td]
      OBVIOUS
    <2>3. PICK e : e = utrEp[r]
      OBVIOUS
    <2>4. CallsResubmit(td, r)
      BY <1>6, <2>1, <2>2 DEF TdDoneResubmit
    <2>5. td \in Units
      <3>1. work # <<>> /\ work \in Seq(Ptr)
        BY <1>6, Zenon DEF TdDoneResubmit, TypeInv, IsrOK
      <3>2. td \in Ptr /\ td # 0
        BY <2>1, <2>4, <3>1 DEF CallsResubmit
      <3> QED BY <3>2 DEF Units, Ptr
    <2>6. r \in Utrs
      BY <2>2, <2>4, <2>5 DEF CallsResubmit, TypeInv, MemOK
    <2>7. e \in Eps /\ Kind[e] = "int"
      BY <2>3, <2>4, ConstAssumption DEF CallsResubmit
    <2>8. IntXferFail(e) \/ (~IntXferFails(e) /\ IntXferOk(r, e))
      BY <1>6, <2>1, <2>2, <2>3 DEF TdDoneResubmit
    <2>9. /\ UNCHANGED <<removeList, hcDone, hccaDone, work, mtds, med, mpc, mep, hcEd, sfEn, sf>>
          /\ ipc' # "remove"
      BY <1>6, Zenon DEF TdDoneResubmit, hc, main
    <2> QED BY <2>6, <2>7, <2>8, <2>9, IntXferOwn
  <1>7. CASE TdFree
    <2>1. PICK t : t = Head(work)
      OBVIOUS
    <2>2. work # <<>> /\ work \in Seq(Ptr)
      BY <1>7, Zenon DEF TdFree, TypeInv, IsrOK
    <2>3. /\ FreeUnits({t}) /\ work' = Tail(work) /\ ipc' # "remove"
          /\ UNCHANGED <<list, hwPipe, removeList, mpc, mep, med, mtds, hcEd, hcDone, hccaDone,
                         sfEn, sf>>
      BY <1>7, <2>1, Zenon DEF TdFree, Reclaimed, links, hc, main
    <2> DEFINE i == <<"isr", 0>>
    <2>4. i \in Spots /\ Chain(i) = work /\ Chain(i)' = Tail(work)
      BY <2>3, SpotsAre, ChainIs
    <2>5. \A u \in Units : i # <<"ed", u>>
      OBVIOUS
    <2>6. \A p \in Spots : p # i /\ (\A u \in Units : p # <<"ed", u>>)
             => Chain(p)' = Chain(p) /\ TdsOn(p)' = TdsOn(p)
      <3> DEFINE D == {p \in Spots : p # i /\ \A u \in Units : p # <<"ed", u>>}
      <3>1. \A p \in D : Chain(p)' = Chain(p) /\ TdsOn(p)' = TdsOn(p)
        BY <2>3, ChainsSame
      <3> QED BY <3>1
    <2> HIDE DEF i
    <2>7. NoDup(work) /\ TdsOn(i) = Range(work) /\ TdsOn(i)' = Range(Tail(work))
      BY <2>4 DEF OwnInv, ChainsInv, TdsOn
    <2>8. NoDup(Tail(work)) /\ TdsOn(i)' = TdsOn(i) \ {t} /\ t \in TdsOn(i)
      BY <2>1, <2>2, <2>7, NoDupTail
    <2>9. \A p \in Spots \ {i} : t \notin TdsOn(p)
      BY <2>4, <2>8 DEF OwnInv, ChainsInv
    <2>10. t \in Units /\ info[t] = None
      BY <2>4, <2>8 DEF OwnInv, TdsInv, AllTds
    <2>11. ChainsInv' /\ TdsInv' /\ MemInv'
      <3>1. ASSUME NEW p \in Spots, \A u \in Units : p # <<"ed", u>>
            PROVE  NoDup(Chain(p)') /\ TdsOn(p)' \subseteq TdsOn(p) \ {t}
        <4>1. CASE p = i
          BY <2>4, <2>8, <4>1
        <4>2. CASE p # i
          <5>1. Chain(p)' = Chain(p) /\ TdsOn(p)' = TdsOn(p)
            BY <2>6, <3>1, <4>2
          <5> QED BY <2>9, <4>2, <5>1 DEF OwnInv, ChainsInv
        <4> QED BY <4>1, <4>2
      <3>2. \A u \in Units \ {t} : TdsOn(<<"ed", u>>) \cap {t} = {}
        BY <2>5, <2>9, SpotsAre
      <3> QED BY <2>3, <3>1, <3>2, FreeOwn
    <2>12. /\ ListInv' /\ ServedInv'
           /\ \A e \in Eps \ {None} : hwPipe[e] # 0 /\ info[hwPipe[e]] = e => info'[hwPipe'[e]] = e
      <3>1. hcEd = 0 \/ info[hcEd] # None
        BY DEF OwnInv, EdsInv, ServedInv
      <3>2. \A k \in Kinds : list'[k] \subseteq list[k] /\ (None \in Eps => list'[k] \cap {t} = {})
        BY <1>0, <2>3
      <3>3. \A u \in {t} \cap Units : info[u] = None \/ info[u] = None
        BY <2>10
      <3> QED BY <2>3, <3>1, <3>2, <3>3, FreeEds
    <2>13. PipeInv'
      BY <1>0, <2>3, <2>12 DEF OwnInv, EdsInv, PipeInv, Settled
    <2>14. \A u \in Units : u # t => used'[u] = used[u] /\ info'[u] = info[u] /\ skip'[u] = skip[u]
      BY <2>3 DEF FreeUnits, TypeInv, MemOK
    <2>15. MedInv'
      <3>1. med # 0 => med # t /\ med \in Units
        BY <2>4, <2>8 DEF OwnInv, TdsInv, AllTds, TypeInv, MainOK, Ptr, Units
      <3> QED BY <2>3, <2>14, <3>1 DEF OwnInv, EdsInv, MedInv, FreshEd
    <2>16. KindInv'
      BY <2>3 DEF OwnInv, EdsInv, KindInv
    <2>17. RemovalInv'
      <3>1. Range(removeList) # {} => mpc # "idle"
        BY NoDupEmpty, Zenon DEF RemoveInv
      <3>2. Range(removeList) # {} => mep \in Eps
        BY <3>1 DEF TypeInv
      <3>3. Range(removeList) \subseteq Units
        BY DEF TypeInv, LinksOK, Range
      <3>4. \A u \in Range(removeList) : info[u] = mep
        BY DEF OwnInv, EdsInv, RemovalInv
      <3>5. \A u \in Range(removeList) : u # t /\ u \in Units
        BY <1>0, <2>10, <3>2, <3>3, <3>4
      <3> QED BY <2>3, <2>14, <3>5, Zenon DEF OwnInv, EdsInv, RemovalInv
    <2> QED BY <2>11, <2>12, <2>13, <2>15, <2>16, <2>17 DEF OwnInv, EdsInv
  <1>8. CASE IsrExit
    <2>1. /\ UNCHANGED <<used, info, skip, queue, list, hwPipe, removeList, mpc, mep, med, mtds,
                         hcEd, hcDone, hccaDone, work, sfEn, sf>>
          /\ ipc' # "remove"
      BY <1>8, Zenon DEF IsrExit, mem, links, hc, main
    <2>2. ChainsInv' /\ TdsInv' /\ MemInv' /\ ListInv'
      BY <2>1, StayOwn, Zenon
    <2> QED BY <1>a, <1>b, <2>1, <2>2, Zenon DEF OwnInv, EdsInv
  <1> QED BY <1>1, <1>2, <1>3, <1>4, <1>5, <1>6, <1>7, <1>8 DEF Isr

-----------------------------------------------------------------------------
(* The thread.                                                             *)

\* What the thread's steps leave to the other two actors.
LEMMA SyncKeeps ==
    ASSUME SyncUnch
    PROVE  UNCHANGED <<hcEd, hcDone, hccaDone, work, ipc, sfEn, sf>>
  BY DEF SyncUnch, hc, isr

\* Steps that allocate and free nothing and end with no ED in hand.
LEMMA MainCalm ==
    ASSUME TypeInv, RemoveInv', OwnInv,
           UNCHANGED <<used, info, queue, list, hcEd, hcDone, hccaDone, work>>,
           mtds' = mtds \/ mtds' = <<>>, med' = 0,
           mpc' \notin {"arm", "delay"} \/ RemovalInv',
           mpc' \notin {"ctrl_td", "ctrl_link", "bulk_ed", "bulk_td"}, PipeInv'
    PROVE  OwnInv'
  <1>1. ChainsInv' /\ TdsInv' /\ MemInv' /\ ListInv'
    BY StayOwn
  <1>2. ServedInv' /\ MedInv' /\ KindInv'
    BY DEF OwnInv, EdsInv, ServedInv, MedInv, KindInv
  <1>3. RemovalInv'
    BY RemovalIdle
  <1> QED BY <1>1, <1>2, <1>3 DEF OwnInv, EdsInv

\* Pipes that are settled keep leading to their ED when they are not changed,
\* and when they are forgotten.
LEMMA PipeKeep ==
    ASSUME TypeInv, OwnInv, UNCHANGED info,
           \A e \in Eps : hwPipe'[e] = 0 \/ (hwPipe'[e] = hwPipe[e] /\ (Settled(e) \/ ~Settled(e)'))
    PROVE  PipeInv'
  <1>1. ASSUME NEW e \in Eps, Settled(e)', hwPipe'[e] # 0 PROVE info'[hwPipe'[e]] = e
    BY <1>1 DEF OwnInv, EdsInv, PipeInv
  <1> QED BY <1>1 DEF PipeInv, Settled

\* ohci_ctrl_xfer and ohci_bulk_xfer take a TD for the request.
LEMMA TakeTd ==
    ASSUME TypeInv, RemoveInv', OwnInv, FirstFree(used) # 0,
           used' = Taken(used, FirstFree(used)), mtds' = Append(mtds, FirstFree(used)),
           UNCHANGED <<info, queue, list, hwPipe, mpc, mep, med, hcEd, hcDone, hccaDone, work>>,
           mpc \notin {"arm", "delay"}
    PROVE  OwnInv'
  <1>1. PICK n : n = FirstFree(used)
    OBVIOUS
  <1>2. used \in [Units -> BOOLEAN] /\ mtds \in Seq(Ptr)
    BY DEF TypeInv, MemOK, MainOK
  <1>3. n \in Units /\ ~used[n] /\ info[n] = None /\ n \notin AllTds
    BY <1>1, <1>2, FreshUnit
  <1>4. n \in Ptr
    BY <1>3 DEF Units, Ptr
  <1>5. \A u \in Units : used'[u] <=> used[u] \/ u = n
    BY <1>1, <1>2 DEF Taken
  <1> DEFINE m == <<"main", 0>>
  <1>6. m \in Spots /\ Chain(m) = mtds /\ Chain(m)' = mtds'
    BY SpotsAre, ChainIs
  <1>7. \A p \in Spots \ {m} : Chain(p)' = Chain(p) /\ TdsOn(p)' = TdsOn(p)
    BY ChainsSame
  <1> HIDE DEF m
  <1>8. NoDup(mtds) /\ TdsOn(m) = Range(mtds) /\ TdsOn(m)' = Range(mtds') /\ n \notin Range(mtds)
    BY <1>3, <1>6 DEF OwnInv, ChainsInv, TdsOn, AllTds
  <1>9. PICK a : a = mtds'
    OBVIOUS
  <1>10. NoDup(a) /\ Range(a) = Range(mtds) \cup {n}
    <2>1. PICK s \in Seq(Ptr) : s = mtds
      BY <1>2
    <2>2. a = Append(s, n) /\ NoDup(s) /\ n \notin Range(s)
      BY <1>1, <1>8, <1>9, <2>1
    <2>3. NoDup(a) /\ Range(a) = Range(s) \cup {n}
      BY <1>4, <2>2, NoDupAppend
    <2> QED BY <2>1, <2>3
  <1>11. ChainsInv' /\ AllTds' \subseteq AllTds \cup {n}
    <2>1. NoDup(Chain(m)') /\ TdsOn(m)' \subseteq TdsOn(m) \cup {n}
      BY <1>6, <1>8, <1>9, <1>10
    <2>2. {n} \cap AllTds = {}
      BY <1>3
    <2> QED BY <1>6, <1>7, <2>1, <2>2, ChainGrows DEF OwnInv
  <1>12. med # 0 => used[med] /\ med \in Units
    BY DEF OwnInv, EdsInv, MedInv, TypeInv, MainOK, Ptr, Units
  <1>13. TdsInv'
    <2>1. n # med
      BY <1>3, <1>12 DEF Units
    <2> QED BY <1>3, <1>5, <1>11, <2>1 DEF OwnInv, TdsInv
  <1>14. MemInv' /\ ListInv' /\ PipeInv' /\ ServedInv' /\ KindInv'
    BY <1>5 DEF OwnInv, EdsInv, MemInv, ListInv, PipeInv, Settled, ServedInv, KindInv
  <1>15. MedInv'
    BY <1>5, <1>12 DEF OwnInv, EdsInv, MedInv, FreshEd
  <1>16. RemovalInv'
    BY RemovalIdle
  <1> QED BY <1>11, <1>13, <1>14, <1>15, <1>16 DEF OwnInv, EdsInv

\* They hang the TDs under the ED.
LEMMA LinkTds ==
    ASSUME TypeInv, OwnInv, med \in Units, queue' = [queue EXCEPT ![med] = mtds], mtds' = <<>>,
           UNCHANGED <<hcDone, hccaDone, work>>
    PROVE  ChainsInv' /\ AllTds' \subseteq AllTds
  <1>1. PICK ed \in Units : ed = med
    OBVIOUS
  <1>2. queue'[ed] = mtds /\ \A u \in Units \ {ed} : queue'[u] = queue[u]
    BY <1>1 DEF TypeInv, MemOK
  <1> DEFINE m == <<"main", 0>>
             q == <<"ed", ed>>
  <1>3. m \in Spots /\ q \in Spots /\ m # q
    BY SpotsAre
  <1>4. Chain(m) = mtds /\ Chain(m)' = <<>> /\ Chain(q)' = mtds
    BY <1>2, ChainIs
  <1>5. \A p \in Spots \ {m, q} : Chain(p)' = Chain(p) /\ TdsOn(p)' = TdsOn(p)
    BY <1>2, ChainsSame
  <1> HIDE DEF m, q
  <1>6. NoDup(mtds) /\ TdsOn(m) = Range(mtds) /\ TdsOn(m)' = {} /\ TdsOn(q)' = Range(mtds)
    BY <1>3, <1>4, NoDupEmpty DEF OwnInv, ChainsInv, TdsOn
  <1>7. \A p \in Spots \ {m, q} : NoDup(Chain(p)') /\ TdsOn(p)' \subseteq TdsOn(p)
    BY <1>5 DEF OwnInv, ChainsInv
  <1>8. NoDup(Chain(m)') /\ NoDup(Chain(q)')
    BY <1>4, <1>6, NoDupEmpty
  <1>9. ChainsInv' /\ AllTds' \subseteq AllTds \cup {}
    BY <1>3, <1>6, <1>7, <1>8, ChainsMove DEF OwnInv
  <1> QED BY <1>9

\* The submission of a request.
LEMMA OwnSubmit ==
    ASSUME TypeInv, RemoveInv, RemoveInv', OwnInv, ~Exhausted,
           XferBegin \/ CtrlAllocTd \/ CtrlEd \/ CtrlLink \/ BulkEd \/ BulkAllocTd \/ BulkMemOut
              \/ BulkLink
    PROVE  OwnInv'
  <1>0. 0 \notin Units /\ None \notin Eps
    BY ConstAssumption DEF Units
  <1>a. /\ used \in [Units -> BOOLEAN] /\ info \in [Units -> Eps \cup {None}]
        /\ hwPipe \in [Eps -> Ptr] /\ list \in [Kinds -> SUBSET Units]
        /\ queue \in [Units -> Seq(Ptr)] /\ mtds \in Seq(Ptr)
    BY DEF TypeInv, MemOK, LinksOK, MainOK
  <1>b. UNCHANGED <<hcEd, hcDone, hccaDone, work, ipc, sfEn, sf>>
    BY SyncKeeps, Zenon DEF XferBegin, CtrlAllocTd, CtrlEd, CtrlLink, BulkEd, BulkAllocTd,
                            BulkMemOut, BulkLink
  <1>c. mpc \notin {"arm", "delay", "quit_done"} /\ \A e \in Eps : Settled(e)
    BY Zenon DEF XferBegin, CtrlAllocTd, CtrlEd, CtrlLink, BulkEd, BulkAllocTd, BulkMemOut,
                 BulkLink, Settled
  <1>d. mpc \notin {"ctrl_link", "bulk_td"} => med = 0
    BY DEF OwnInv, EdsInv, MedInv
  <1>e. hcEd # 0 => hcEd \in Units /\ info[hcEd] # None
    BY DEF OwnInv, EdsInv, ServedInv, TypeInv, HcOK, Ptr, Units
  <1>1. CASE XferBegin
    <2>1. /\ UNCHANGED <<used, info, queue, list, hwPipe, mtds, med>> /\ mpc = "idle"
          /\ mep' \in Eps
          /\ \/ Kind[mep'] = "ctrl" /\ mpc' = "ctrl_td"
             \/ Kind[mep'] = "bulk" /\ mpc' = "bulk_ed"
      BY <1>1 DEF XferBegin, mem, links
    <2>2. med = 0
      BY <1>d, <2>1
    <2>3. ChainsInv' /\ TdsInv' /\ MemInv' /\ ListInv'
      BY <1>b, <2>1, StayOwn
    <2>4. PipeInv' /\ ServedInv'
      BY <1>b, <1>c, <2>1 DEF OwnInv, EdsInv, PipeInv, ServedInv
    <2>5. MedInv' /\ KindInv'
      BY <2>1, <2>2 DEF MedInv, KindInv
    <2>6. RemovalInv'
      BY <2>1, RemovalIdle
    <2> QED BY <2>3, <2>4, <2>5, <2>6 DEF OwnInv, EdsInv
  <1>2. CASE CtrlAllocTd
    <2>1. FirstFree(used) # 0
      BY <1>2 DEF CtrlAllocTd, Exhausted
    <2>2. used' = Taken(used, FirstFree(used)) /\ mtds' = Append(mtds, FirstFree(used))
      BY <1>2, <2>1 DEF CtrlAllocTd
    <2>3. UNCHANGED <<info, queue, list, hwPipe, mpc, mep, med>>
      BY <1>2 DEF CtrlAllocTd, links
    <2> QED BY <1>b, <1>c, <2>1, <2>2, <2>3, TakeTd
  <1>3. CASE CtrlEd
    <2>1. mpc = "ctrl_td" /\ mep \in Eps /\ Kind[mep] = "ctrl" /\ med = 0 /\ list' = list
      BY <1>3, <1>d DEF CtrlEd, OwnInv, EdsInv, KindInv, TypeInv
    <2>2. PICK n : n = FirstFree(used)
      OBVIOUS
    <2>3. CASE FreeUnits(Range(mtds)) /\ SubmitFails
      <3>1. /\ hwPipe' = [hwPipe EXCEPT ![mep] = 0] /\ mpc' = "idle" /\ mtds' = <<>> /\ med' = 0
        BY <2>1, <2>3 DEF SubmitFails, Return
      <3> DEFINE m == <<"main", 0>>
      <3>2. m \in Spots /\ Chain(m) = mtds /\ Chain(m)' = <<>> /\ \A u \in Units : m # <<"ed", u>>
        BY <3>1, SpotsAre, ChainIs
      <3>3. \A p \in Spots : p # m /\ (\A u \in Units : p # <<"ed", u>>)
               => Chain(p)' = Chain(p) /\ TdsOn(p)' = TdsOn(p)
        <4> DEFINE D == {p \in Spots : p # m /\ \A u \in Units : p # <<"ed", u>>}
        <4>1. \A p \in D : Chain(p)' = Chain(p) /\ TdsOn(p)' = TdsOn(p)
          BY <1>b, ChainsSame
        <4> QED BY <4>1
      <3> HIDE DEF m
      <3>4. TdsOn(m) = Range(mtds) /\ TdsOn(m)' = {} /\ NoDup(Chain(m)')
        BY <3>2, NoDupEmpty DEF TdsOn
      <3>5. \A p \in Spots \ {m} : TdsOn(p) \cap Range(mtds) = {}
        BY <3>2, <3>4 DEF OwnInv, ChainsInv
      <3>6. \A u \in Range(mtds) : u \in Units /\ info[u] = None
        BY <3>2, <3>4 DEF OwnInv, TdsInv, AllTds
      <3>7. ChainsInv' /\ TdsInv' /\ MemInv'
        <4>1. ASSUME NEW p \in Spots, \A u \in Units : p # <<"ed", u>>
              PROVE  NoDup(Chain(p)') /\ TdsOn(p)' \subseteq TdsOn(p) \ Range(mtds)
          <5>1. CASE p = m
            BY <3>4, <5>1
          <5>2. CASE p # m
            <6>1. Chain(p)' = Chain(p) /\ TdsOn(p)' = TdsOn(p)
              BY <3>3, <4>1, <5>2
            <6> QED BY <3>5, <5>2, <6>1 DEF OwnInv, ChainsInv
          <5> QED BY <5>1, <5>2
        <4>2. \A u \in Units \ Range(mtds) : TdsOn(<<"ed", u>>) \cap Range(mtds) = {}
          BY <3>2, <3>5, SpotsAre
        <4> QED BY <2>3, <3>1, <4>1, <4>2, FreeOwn
      <3>8. \A u \in Units : info'[u] = IF u \in Range(mtds) THEN None ELSE info[u]
        BY <2>3 DEF FreeUnits
      <3>9. ListInv' /\ ServedInv'
        BY <1>0, <1>a, <1>b, <1>e, <2>1, <3>6, <3>8 DEF OwnInv, EdsInv, ListInv, ServedInv
      <3>10. PipeInv'
        <4>1. ASSUME NEW e \in Eps, hwPipe'[e] # 0 PROVE info'[hwPipe'[e]] = e
          <5>1. hwPipe'[e] = hwPipe[e]
            BY <1>a, <2>1, <3>1, <4>1
          <5>2. hwPipe[e] \in Units /\ info[hwPipe[e]] = e
            BY <1>c, <4>1, <5>1, PipeFacts
          <5> QED BY <1>0, <3>6, <3>8, <5>1, <5>2
        <4> QED BY <4>1 DEF PipeInv
      <3>11. MedInv' /\ KindInv'
        BY <3>1 DEF MedInv, KindInv
      <3>12. RemovalInv'
        BY <3>1, RemovalIdle
      <3> QED BY <3>7, <3>9, <3>10, <3>11, <3>12 DEF OwnInv, EdsInv
    <2>4. CASE ~(FreeUnits(Range(mtds)) /\ SubmitFails)
      <3>1. /\ mpc' = "ctrl_link" /\ UNCHANGED <<info, queue, hwPipe, mep, mtds>>
            /\ \/ hwPipe[mep] = 0 /\ n # 0 /\ used' = Taken(used, n) /\ med' = n
               \/ hwPipe[mep] # 0 /\ used' = used /\ med' = hwPipe[mep]
        BY <1>3, <2>2, <2>4 DEF CtrlEd
      <3>2. med' \in Units /\ used'[med'] /\ (\A u \in Units : used[u] => used'[u])
        <4>1. CASE hwPipe[mep] = 0
          <5>1. n \in Units
            BY <1>a, <2>2, <3>1, <4>1, FreshUnit
          <5> QED BY <1>a, <3>1, <4>1, <5>1 DEF Taken
        <4>2. CASE hwPipe[mep] # 0
          <5>1. hwPipe[mep] \in Units /\ used[hwPipe[mep]]
            BY <1>c, <2>1, <4>2, PipeFacts
          <5> QED BY <3>1, <4>2, <5>1
        <4> QED BY <4>1, <4>2
      <3>3. med' \notin AllTds /\ (info[med'] = mep \/ (info[med'] = None /\ hwPipe[mep] = 0))
        <4>1. CASE hwPipe[mep] = 0
          <5>1. info[n] = None /\ n \notin AllTds
            BY <1>a, <2>2, <3>1, <4>1, FreshUnit
          <5> QED BY <3>1, <4>1, <5>1
        <4>2. CASE hwPipe[mep] # 0
          <5>1. info[hwPipe[mep]] = mep
            BY <1>c, <2>1, <4>2, PipeFacts
          <5> QED BY <1>0, <2>1, <3>1, <4>2, <5>1 DEF OwnInv, TdsInv
        <4> QED BY <4>1, <4>2
      <3>4. ChainsInv' /\ AllTds' = AllTds
        BY <1>b, <3>1, ChainsStay DEF OwnInv
      <3>5. TdsInv'
        BY <3>1, <3>2, <3>3, <3>4 DEF OwnInv, TdsInv
      <3>6. MemInv' /\ ListInv' /\ ServedInv'
        BY <1>b, <2>1, <3>1, <3>2 DEF OwnInv, EdsInv, MemInv, ListInv, ServedInv
      <3>7. PipeInv'
        BY <1>c, <3>1 DEF OwnInv, EdsInv, PipeInv
      <3>8. MedInv' /\ KindInv'
        BY <2>1, <3>1, <3>2, <3>3 DEF MedInv, FreshEd, KindInv
      <3>9. RemovalInv'
        BY <3>1, RemovalIdle
      <3> QED BY <3>4, <3>5, <3>6, <3>7, <3>8, <3>9 DEF OwnInv, EdsInv
    <2> QED BY <2>3, <2>4
  <1>4. CASE CtrlLink
    <2>1. PICK ed \in Units : ed = med
      BY <1>4 DEF CtrlLink, TypeInv
    <2>2. /\ info' = [info EXCEPT ![ed] = mep] /\ queue' = [queue EXCEPT ![med] = mtds]
          /\ hwPipe' = [hwPipe EXCEPT ![mep] = ed] /\ list' = [list EXCEPT !["ctrl"] = {ed}]
          /\ mtds' = <<>> /\ med' = 0 /\ mpc' = "wait" /\ used' = used /\ mep' = mep
      BY <1>4, <2>1 DEF CtrlLink
    <2>3. mpc = "ctrl_link" /\ mep \in Eps /\ Kind[mep] = "ctrl"
      BY <1>4 DEF CtrlLink, TypeInv, OwnInv, EdsInv, KindInv
    <2>4. used[ed] /\ info[ed] \in {mep, None}
      BY <1>0, <2>1 DEF OwnInv, EdsInv, MedInv, FreshEd
    <2>5. ChainsInv' /\ AllTds' \subseteq AllTds
      BY <1>b, <2>1, <2>2, LinkTds
    <2>6. \A u \in Units : /\ info'[u] = IF u = ed THEN mep ELSE info[u]
                           /\ u # ed => queue'[u] = queue[u]
      BY <1>a, <2>1, <2>2
    <2>7. TdsInv'
      BY <1>0, <2>1, <2>2, <2>5, <2>6 DEF OwnInv, TdsInv
    <2>8. MemInv'
      BY <1>0, <2>2, <2>3, <2>4, <2>6 DEF OwnInv, EdsInv, MemInv
    <2>9. ListInv'
      <3>1. ASSUME NEW k \in Kinds, NEW u \in list'[k] PROVE info'[u] \in Eps /\ Kind[info'[u]] = k
        <4>1. CASE k = "ctrl"
          BY <1>a, <2>2, <2>3, <2>6, <3>1, <4>1
        <4>2. CASE k # "ctrl"
          <5>1. u \in list[k] /\ u \in Units
            BY <1>a, <2>2, <3>1, <4>2
          <5>2. info[u] \in Eps /\ Kind[info[u]] = k
            BY <5>1 DEF OwnInv, EdsInv, ListInv
          <5>3. u # ed
            BY <1>0, <2>3, <2>4, <4>2, <5>2
          <5> QED BY <2>6, <5>1, <5>2, <5>3
        <4> QED BY <4>1, <4>2
      <3> QED BY <3>1 DEF ListInv
    <2>10. ServedInv'
      BY <1>0, <1>b, <1>e, <2>3, <2>6 DEF ServedInv
    <2>11. PipeInv'
      <3>1. ASSUME NEW e \in Eps, hwPipe'[e] # 0 PROVE info'[hwPipe'[e]] = e
        <4>1. CASE e = mep
          BY <1>a, <2>2, <2>6, <4>1
        <4>2. CASE e # mep
          <5>1. hwPipe'[e] = hwPipe[e]
            BY <1>a, <2>2, <4>2
          <5>2. hwPipe[e] \in Units /\ info[hwPipe[e]] = e
            BY <1>c, <3>1, <5>1, PipeFacts
          <5> QED BY <1>0, <2>4, <2>6, <4>2, <5>1, <5>2
        <4> QED BY <4>1, <4>2
      <3> QED BY <3>1 DEF PipeInv
    <2>12. MedInv' /\ KindInv'
      BY <2>2 DEF MedInv, KindInv
    <2>13. RemovalInv'
      BY <2>2, RemovalIdle
    <2> QED BY <2>5, <2>7, <2>8, <2>9, <2>10, <2>11, <2>12, <2>13 DEF OwnInv, EdsInv
  <1>5. CASE BulkEd
    <2>1. mpc = "bulk_ed" /\ mep \in Eps /\ Kind[mep] = "bulk" /\ med = 0
      BY <1>5, <1>d DEF BulkEd, OwnInv, EdsInv, KindInv, TypeInv
    <2>2. UNCHANGED <<queue, list>>
      BY <1>5 DEF BulkEd
    <2>3. CASE SubmitFails /\ UNCHANGED <<used, info>>
      <3>1. hwPipe' = hwPipe /\ mpc' = "idle" /\ mtds' = <<>> /\ med' = 0
        BY <2>1, <2>3 DEF SubmitFails, Return
      <3>2. PipeInv'
        BY <1>c, <2>3, <3>1, PipeKeep
      <3> QED BY <1>b, <2>2, <2>3, <3>1, <3>2, MainCalm
    <2>4. CASE ~(SubmitFails /\ UNCHANGED <<used, info>>)
      <3>1. PICK ed : /\ \/ /\ ed = FirstFree(used) /\ ed # 0 /\ used' = Taken(used, ed)
                            /\ info' = [info EXCEPT ![ed] = mep]
                         \/ ed \in EdOf(mep) /\ UNCHANGED <<used, info>>
                      /\ hwPipe' = [hwPipe EXCEPT ![mep] = ed] /\ med' = ed /\ mpc' = "bulk_td"
                      /\ UNCHANGED <<mep, mtds>>
        BY <1>5, <2>4 DEF BulkEd
      <3>2. /\ ed \in Units /\ ed \notin AllTds /\ info[ed] \in {mep, None} /\ used'[ed]
            /\ (\A u \in Units : used[u] => used'[u])
            /\ \A u \in Units : info'[u] = IF u = ed THEN mep ELSE info[u]
        <4>1. CASE ed = FirstFree(used) /\ ed # 0 /\ used' = Taken(used, ed)
                   /\ info' = [info EXCEPT ![ed] = mep]
          <5>1. ed \in Units /\ info[ed] = None /\ ed \notin AllTds
            BY <1>a, <4>1, FreshUnit
          <5> QED BY <1>a, <4>1, <5>1 DEF Taken
        <4>2. CASE ed \in EdOf(mep) /\ UNCHANGED <<used, info>>
          <5>1. ed \in Units /\ info[ed] = mep
            BY <1>a, <2>1, <4>2, ConstAssumption DEF EdOf
          <5>2. used[ed] /\ ed \notin AllTds
            BY <1>0, <2>1, <5>1 DEF OwnInv, TdsInv, EdsInv, MemInv
          <5> QED BY <4>2, <5>1, <5>2
        <4> QED BY <3>1, <4>1, <4>2
      <3>3. ChainsInv' /\ AllTds' = AllTds
        BY <1>b, <2>2, <3>1, ChainsStay DEF OwnInv
      <3>4. TdsInv'
        BY <3>1, <3>2, <3>3 DEF OwnInv, TdsInv
      <3>5. MemInv' /\ ListInv' /\ ServedInv'
        <4>1. MemInv'
          BY <1>0, <2>1, <2>2, <3>2 DEF OwnInv, EdsInv, MemInv
        <4>2. ListInv'
          <5>1. ASSUME NEW k \in Kinds, NEW u \in list[k]
                PROVE  info'[u] \in Eps /\ Kind[info'[u]] = k
            <6>1. info[u] \in Eps /\ Kind[info[u]] = k /\ u \in Units
              BY <1>a DEF OwnInv, EdsInv, ListInv
            <6>2. u = ed => info[u] = mep
              BY <1>0, <3>2, <6>1
            <6> QED BY <3>2, <6>1, <6>2
          <5> QED BY <2>2, <5>1 DEF ListInv
        <4>3. ServedInv'
          BY <1>0, <1>b, <1>e, <2>1, <3>2 DEF ServedInv
        <4> QED BY <4>1, <4>2, <4>3
      <3>6. PipeInv'
        <4>1. ASSUME NEW e \in Eps, hwPipe'[e] # 0 PROVE info'[hwPipe'[e]] = e
          <5>1. CASE e = mep
            BY <1>a, <3>1, <3>2, <5>1
          <5>2. CASE e # mep
            <6>1. hwPipe'[e] = hwPipe[e]
              BY <1>a, <3>1, <5>2
            <6>2. hwPipe[e] \in Units /\ info[hwPipe[e]] = e
              BY <1>c, <4>1, <6>1, PipeFacts
            <6> QED BY <1>0, <3>2, <5>2, <6>1, <6>2
          <5> QED BY <5>1, <5>2
        <4> QED BY <4>1 DEF PipeInv
      <3>7. MedInv' /\ KindInv'
        BY <2>1, <3>1, <3>2 DEF MedInv, KindInv
      <3>8. RemovalInv'
        BY <3>1, RemovalIdle
      <3> QED BY <3>3, <3>4, <3>5, <3>6, <3>7, <3>8 DEF OwnInv, EdsInv
    <2> QED BY <2>3, <2>4
  <1>6. CASE BulkAllocTd
    <2>1. /\ FirstFree(used) # 0 /\ used' = Taken(used, FirstFree(used))
          /\ mtds' = Append(mtds, FirstFree(used))
      BY <1>6 DEF BulkAllocTd
    <2>2. UNCHANGED <<info, queue, list, hwPipe, mpc, mep, med>>
      BY <1>6 DEF BulkAllocTd, links
    <2> QED BY <1>b, <1>c, <2>1, <2>2, TakeTd
  <1>7. CASE BulkMemOut
    BY <1>7 DEF BulkMemOut, Exhausted
  <1>8. CASE BulkLink
    <2>1. PICK ed \in Units : ed = med
      BY <1>8 DEF BulkLink, TypeInv
    <2>2. /\ queue' = [queue EXCEPT ![med] = mtds] /\ list' = [list EXCEPT !["bulk"] = @ \cup {ed}]
          /\ mtds' = <<>> /\ med' = 0 /\ mpc' = "wait" /\ UNCHANGED <<used, info, hwPipe, mep>>
      BY <1>8, <2>1 DEF BulkLink
    <2>3. mpc = "bulk_td" /\ mep \in Eps /\ Kind[mep] = "bulk"
      BY <1>8 DEF BulkLink, TypeInv, OwnInv, EdsInv, KindInv
    <2>4. info[ed] = mep
      BY <1>0, <2>1, <2>3 DEF OwnInv, EdsInv, MedInv, FreshEd
    <2>5. ChainsInv' /\ AllTds' \subseteq AllTds
      BY <1>b, <2>1, <2>2, LinkTds
    <2>6. TdsInv'
      BY <1>0, <2>2, <2>5 DEF OwnInv, TdsInv, Units
    <2>7. \A u \in Units : u # ed => queue'[u] = queue[u]
      BY <1>a, <2>1, <2>2
    <2>8. MemInv' /\ ServedInv'
      BY <1>0, <1>b, <2>2, <2>3, <2>4, <2>7 DEF OwnInv, EdsInv, MemInv, ServedInv
    <2>9. ListInv'
      <3>1. ASSUME NEW k \in Kinds, NEW u \in list'[k] PROVE info'[u] \in Eps /\ Kind[info'[u]] = k
        <4>1. u \in list[k] \/ (u = ed /\ k = "bulk")
          BY <1>a, <2>2, <3>1
        <4> QED BY <2>2, <2>3, <2>4, <4>1 DEF OwnInv, EdsInv, ListInv
      <3> QED BY <3>1 DEF ListInv
    <2>10. PipeInv'
      BY <1>c, <2>2, PipeKeep
    <2>11. MedInv' /\ KindInv'
      BY <2>2 DEF MedInv, KindInv
    <2>12. RemovalInv'
      BY <2>2, RemovalIdle
    <2> QED BY <2>5, <2>6, <2>8, <2>9, <2>10, <2>11, <2>12 DEF OwnInv, EdsInv
  <1> QED BY <1>1, <1>2, <1>3, <1>4, <1>5, <1>6, <1>7, <1>8

\* Waiting for the result, interrupt pipes, and the removal of a pipe.
LEMMA OwnRest ==
    ASSUME TypeInv, RemoveInv, RemoveInv', OwnInv,
           WaitDone \/ WaitTimeout \/ QuitEp \/ IntStart \/ HubResubmit \/ IntStop \/ Quit
              \/ ArmSf \/ DelayOver \/ QuitDone
    PROVE  OwnInv'
  <1>0. 0 \notin Units /\ None \notin Eps
    BY ConstAssumption DEF Units
  <1>a. med = 0
    BY DEF WaitDone, WaitTimeout, QuitEp, IntStart, HubResubmit, IntStop, Quit, ArmSf, DelayOver,
           QuitDone, OwnInv, EdsInv, MedInv
  <1>1. CASE WaitDone \/ WaitTimeout \/ QuitEp \/ IntStop \/ DelayOver \/ QuitDone
    <2>1. /\ UNCHANGED <<used, info, queue, list, hcEd, hcDone, hccaDone, work>>
          /\ mpc' \in {"idle", "quit", "quit_done"}
          /\ mtds' = mtds \/ mtds' = <<>>
          /\ med' = 0
      BY <1>1, <1>a, SyncKeeps, Zenon DEF WaitDone, WaitTimeout, QuitEp, IntStop, DelayOver,
           QuitDone, Return, mem, links, hc, isr
    <2>2. \A e \in Eps : hwPipe'[e] = 0 \/ (hwPipe'[e] = hwPipe[e] /\ (Settled(e) \/ ~Settled(e)'))
      <3>1. CASE WaitDone \/ WaitTimeout \/ QuitEp \/ IntStop
        BY <3>1, Zenon DEF WaitDone, WaitTimeout, QuitEp, IntStop, links, Settled
      <3>2. CASE DelayOver
        BY <3>2, Zenon DEF DelayOver, links, Settled
      <3>3. CASE QuitDone
        <4>1. hwPipe' = [hwPipe EXCEPT ![mep] = 0]
          BY <3>3 DEF QuitDone
        <4> QED BY <4>1 DEF Settled, TypeInv, LinksOK
      <3> QED BY <1>1, <3>1, <3>2, <3>3
    <2>3. PipeInv'
      BY <2>1, <2>2, PipeKeep
    <2> QED BY <2>1, <2>3, MainCalm
  <1>2. CASE IntStart \/ HubResubmit
    <2>1. PICK e \in Eps, r \in Utrs : /\ Kind[e] = "int"
                                       /\ IntXferFail(e) \/ (~IntXferFails(e) /\ IntXferOk(r, e))
      <3>1. CASE IntStart
        BY <3>1 DEF IntStart
      <3>2. CASE HubResubmit
        BY <3>2 DEF HubResubmit, TypeInv, MainOK
      <3> QED BY <1>2, <3>1, <3>2
    <2>2. UNCHANGED <<removeList, hcDone, hccaDone, work, mtds, med, mpc, mep, hcEd, sfEn, sf, ipc>>
      BY <1>2, Zenon DEF IntStart, HubResubmit, hc, isr, main
    <2> QED BY <2>1, <2>2, IntXferOwn
  <1>3. CASE Quit
    <2>1. /\ UNCHANGED <<used, info, queue, list, hwPipe, hcEd, hcDone, hccaDone, work, mtds, med,
                         mep, ipc, sfEn, sf>>
          /\ mpc = "quit" /\ ipc = "idle"
      BY <1>3, SyncKeeps, Zenon DEF Quit, MainTurn
    <2>2. removeList = <<>> /\ ~sfEn
      BY <2>1, Zenon DEF RemoveInv
    <2>3. PICK ed : ed = hwPipe[mep]
      OBVIOUS
    <2>4. \/ mpc' = "quit_done"
          \/ /\ mpc' = "arm" /\ ed # 0 /\ skip' = [skip EXCEPT ![ed] = TRUE]
             /\ removeList' = <<ed>> \o removeList
      BY <1>3, <2>3 DEF Quit, NothingToQuit, WithRemoved
    <2>5. PipeInv'
      <3>1. \A e \in Eps : hwPipe'[e] = hwPipe[e] /\ Settled(e)
        BY <2>1 DEF Settled
      <3> QED BY <2>1, <3>1, PipeKeep
    <2>6. CASE mpc' = "quit_done"
      BY <1>a, <2>1, <2>5, <2>6, MainCalm
    <2>7. CASE mpc' = "arm" /\ ed # 0 /\ skip' = [skip EXCEPT ![ed] = TRUE]
               /\ removeList' = <<ed>> \o removeList
      <3>1. mep \in Eps /\ Settled(mep)
        BY <2>1 DEF TypeInv, Settled
      <3>2. ed \in Units /\ info[ed] = mep
        BY <2>3, <2>7, <3>1, PipeFacts
      <3>3. removeList' = <<ed>>
        BY <2>2, <2>7
      <3>4. Range(removeList') = {ed}
        BY <3>3 DEF Range
      <3>5. skip'[ed]
        BY <2>7, <3>2 DEF TypeInv, MemOK
      <3>6. ~((sfEn' /\ sf') \/ ipc' = "remove")
        BY <2>1, <2>2, Zenon
      <3>7. RemovalInv'
        BY <2>1, <3>2, <3>4, <3>5, <3>6, Zenon DEF RemovalInv
      <3> QED BY <1>a, <2>1, <2>5, <2>7, <3>7, MainCalm
    <2> QED BY <2>4, <2>6, <2>7
  <1>4. CASE ArmSf
    <2>1. /\ UNCHANGED <<used, info, skip, queue, list, hwPipe, hcEd, hcDone, hccaDone, work, mtds,
                         med, mep, ipc, removeList>>
          /\ ~sf' /\ mpc = "arm" /\ mpc' = "delay" /\ ipc = "idle"
      BY <1>4, Zenon DEF ArmSf, MainTurn, mem, links, isr
    <2>2. RemovalInv'
      BY <2>1, Zenon DEF OwnInv, EdsInv, RemovalInv
    <2>3. PipeInv'
      <3>1. \A e \in Eps : hwPipe'[e] = hwPipe[e] /\ (Settled(e) \/ ~Settled(e)')
        BY <2>1 DEF Settled
      <3> QED BY <2>1, <3>1, PipeKeep
    <2> QED BY <1>a, <2>1, <2>2, <2>3, MainCalm
  <1> QED BY <1>1, <1>2, <1>3, <1>4

-----------------------------------------------------------------------------
(* The theorems.                                                           *)

LEMMA OwnInit == Init => OwnInv
  <1> SUFFICES ASSUME Init PROVE OwnInv
    OBVIOUS
  <1>1. \A p \in Spots : Chain(p) = <<>>
    BY SpotsAre, ChainIs DEF Init
  <1>2. \A p \in Spots : NoDup(Chain(p)) /\ TdsOn(p) = {}
    BY <1>1, NoDupEmpty DEF TdsOn
  <1>3. ChainsInv /\ TdsInv
    BY <1>2 DEF ChainsInv, TdsInv, AllTds
  <1>4. MemInv /\ ListInv /\ PipeInv /\ ServedInv /\ MedInv /\ KindInv
    BY DEF Init, MemInv, ListInv, PipeInv, ServedInv, MedInv, KindInv
  <1>5. RemovalInv
    BY NoDupEmpty DEF Init, RemovalInv
  <1> QED BY <1>3, <1>4, <1>5 DEF OwnInv, EdsInv

LEMMA OwnNext ==
    ASSUME TypeInv, RemoveInv, OwnInv, ~Exhausted, [Next]_vars
    PROVE  OwnInv'
  <1>1. RemoveInv'
    BY RemoveInvNext
  <1>2. CASE Hc
    BY <1>2, OwnHc
  <1>3. CASE Isr
    BY <1>1, <1>3, OwnIsr
  <1>4. CASE Main
    BY <1>1, <1>4, OwnSubmit, OwnRest DEF Main
  <1>5. CASE UNCHANGED vars
    <2>1. UNCHANGED <<used, info, skip, queue, list, hwPipe, removeList, mpc, mep, med, mtds, hcEd,
                      hcDone, hccaDone, work, sfEn, sf, ipc>>
      BY <1>5, Zenon DEF vars, mem, links, hc, isr, main
    <2>2. ChainsInv' /\ TdsInv' /\ MemInv' /\ ListInv'
      BY <2>1, StayOwn, Zenon
    <2>3. PipeInv' /\ ServedInv' /\ MedInv' /\ KindInv'
      BY <2>1 DEF OwnInv, EdsInv, PipeInv, Settled, ServedInv, MedInv, FreshEd, KindInv
    <2>4. RemovalInv'
      BY <2>1, Zenon DEF OwnInv, EdsInv, RemovalInv
    <2> QED BY <2>2, <2>3, <2>4 DEF OwnInv, EdsInv
  <1> QED BY <1>2, <1>3, <1>4, <1>5 DEF Next

\* The invariant in a run that never meets an exhausted pool.
LEMMA OwnHolds == Spec /\ []~Exhausted => [](TypeInv /\ RemoveInv /\ OwnInv)
  <1>1. Init => TypeInv /\ RemoveInv /\ OwnInv
    BY InitType, RemoveInvInit, OwnInit
  <1>2. TypeInv /\ RemoveInv /\ OwnInv /\ ~Exhausted /\ [Next]_vars
        => (TypeInv /\ RemoveInv /\ OwnInv)'
    BY NextType, RemoveInvNext, OwnNext
  <1> QED BY <1>1, <1>2, PTL DEF Spec

\* An active ED is allocated and no TD, and the chains looked at are among all.
LEMMA ActiveFacts ==
    ASSUME TypeInv, RemoveInv, OwnInv
    PROVE  /\ \A u \in ActiveEds : u \in Units /\ used[u] /\ u \notin AllTds
           /\ Places \subseteq Spots
  <1>0. 0 \notin Units /\ None \notin Eps
    BY ConstAssumption DEF Units
  <1>1. ASSUME NEW u \in Units, info[u] # None PROVE used[u] /\ u \notin AllTds
    BY <1>1 DEF OwnInv, TdsInv, EdsInv, MemInv
  <1>2. ASSUME NEW u \in Units, Linked(u) PROVE used[u] /\ u \notin AllTds
    BY <1>0, <1>1, <1>2 DEF Linked, OwnInv, EdsInv, ListInv
  <1>3. ASSUME NEW u \in Range(removeList) PROVE u \in Units /\ used[u] /\ u \notin AllTds
    <2>1. mpc # "idle"
      BY NoDupEmpty, Zenon DEF RemoveInv
    <2>2. u \in Units /\ info[u] = mep /\ mep \in Eps
      BY <2>1 DEF TypeInv, LinksOK, Range, OwnInv, EdsInv, RemovalInv
    <2> QED BY <1>0, <1>1, <2>2
  <1>4. ASSUME NEW u \in SettledPipes, u # 0 PROVE u \in Units /\ used[u] /\ u \notin AllTds
    <2>1. PICK e \in Eps : Settled(e) /\ u = hwPipe[e]
      BY <1>4 DEF SettledPipes, Settled
    <2>2. u \in Units /\ info[u] = e
      BY <1>4, <2>1, PipeFacts
    <2> QED BY <1>0, <1>1, <2>2
  <1>5. hcEd # 0 => hcEd \in Units /\ used[hcEd] /\ hcEd \notin AllTds
    BY <1>1 DEF OwnInv, EdsInv, ServedInv, TypeInv, HcOK, Ptr, Units
  <1>6. med # 0 => med \in Units /\ used[med] /\ med \notin AllTds
    BY DEF OwnInv, EdsInv, MedInv, TdsInv, TypeInv, MainOK, Ptr, Units
  <1>7. \A u \in ActiveEds : u \in Units /\ used[u] /\ u \notin AllTds
    BY <1>2, <1>3, <1>4, <1>5, <1>6 DEF ActiveEds
  <1>8. Places \subseteq Spots
    BY <1>7 DEF Places, Spots
  <1> QED BY <1>7, <1>8

\* No unit the lists, a pipe that is not being quit, the controller or a chain
\* of TDs refers to is free, whatever the thread, the interrupt handler and the
\* controller do in between, as long as no submission meets an exhausted pool.
THEOREM ReachableAllocatedHolds == Spec /\ []~Exhausted => []ReachableAllocated
  <1>1. TypeInv /\ RemoveInv /\ OwnInv => ReachableAllocated
    <2> SUFFICES ASSUME TypeInv, RemoveInv, OwnInv PROVE ReachableAllocated
      OBVIOUS
    <2>1. \A u \in ActiveEds : u # 0 /\ used[u]
      BY ActiveFacts DEF Units
    <2>2. LiveTds \subseteq AllTds
      BY ActiveFacts DEF LiveTds, AllTds
    <2>3. \A u \in LiveTds : u # 0 /\ used[u]
      BY <2>2 DEF OwnInv, TdsInv, Units
    <2> QED BY <2>1, <2>3 DEF ReachableAllocated
  <1> QED BY <1>1, OwnHolds, PTL

\* A TD is on one chain, once, and is no ED, as long as no submission meets an
\* exhausted pool: nothing is freed twice and no queue runs into another one.
THEOREM TdsExclusiveHolds == Spec /\ []~Exhausted => []TdsExclusive
  <1>1. TypeInv /\ RemoveInv /\ OwnInv => TdsExclusive
    <2> SUFFICES ASSUME TypeInv, RemoveInv, OwnInv PROVE TdsExclusive
      OBVIOUS
    <2>1. \A p, q \in Places : p # q => TdsOn(p) \cap TdsOn(q) = {}
      BY ActiveFacts DEF OwnInv, ChainsInv
    <2>2. \A p \in Places : Cardinality(TdsOn(p)) = Len(Chain(p))
      <3>1. ASSUME NEW p \in Places PROVE Cardinality(TdsOn(p)) = Len(Chain(p))
        <4>1. p \in Spots
          BY ActiveFacts
        <4>2. Chain(p) \in Seq(Ptr) /\ NoDup(Chain(p))
          BY <4>1, ChainType DEF OwnInv, ChainsInv
        <4> QED BY <4>2, NoDupCard DEF TdsOn
      <3> QED BY <3>1
    <2>3. LiveTds \cap ActiveEds = {}
      BY ActiveFacts DEF LiveTds, AllTds
    <2> QED BY <2>1, <2>2, <2>3 DEF TdsExclusive
  <1> QED BY <1>1, OwnHolds, PTL

\* Every ED on a list of the controller is allocated, as long as no submission
\* meets an exhausted pool: without the cleanup of ohci_bulk_xfer the interrupt
\* handler is the only one to free an ED, and it unlinks it first.
THEOREM LinkedEdsAllocatedHolds == Spec /\ []~Exhausted => []LinkedEdsAllocated
  <1>1. TypeInv /\ RemoveInv /\ OwnInv => LinkedEdsAllocated
    BY ActiveFacts DEF LinkedEdsAllocated, ActiveEds, Units
  <1> QED BY <1>1, OwnHolds, PTL
=============================================================================
