------------------------- MODULE OhciRequestProofs -------------------------
(***************************************************************************)
(* What OhciHcd promises the owners of its transfer requests and the pool: *)
(* a pipe that was quit is quit, td_cnt counts what is outstanding, the    *)
(* result of a call is final, neither the controller nor the interrupt     *)
(* handler reaches a request that was freed, and no unit is lost.  For     *)
(* every pool, set of endpoints and of requests, as long as no submission  *)
(* meets a pool that has run out, and no pipe whose callback submits again *)
(* is one the application stops: where these happen the runs show what     *)
(* goes wrong.                                                             *)
(***************************************************************************)
EXTENDS OhciOwnProofs

\* A pipe that is stopped has no callback that submits again: a completion
\* during the delay of ohci_quit_xfer would submit the request that is about to
\* be freed (usbh_hid_stop_int_read).
NoRace == Stoppable \cap Resubmits = {}

-----------------------------------------------------------------------------
(* Which ED belongs to which endpoint.                                     *)

Quitting == mpc \in {"arm", "delay", "quit_done"}

\* An ED is skipped only while it is to be removed.
SkipInv == \A u \in Units : skip[u] => u \in Range(removeList)

\* An endpoint has one ED, the one its pipe leads to, or the one to be removed.
OnePipe(u, e) == IF e = mep /\ Quitting THEN u \in Range(removeList) ELSE hwPipe[e] = u
PipesInv == \A u \in Units : info[u] \in Eps => OnePipe(u, info[u])

\* An ED for a bulk or an interrupt pipe is linked, or about to be.
LinkedInv == \A u \in Units : info[u] \in Eps /\ Kind[info[u]] # "ctrl"
                 => u \in list[Kind[info[u]]] \/ u = med

\* An interrupt pipe is quit by those who stop it, and nobody waits for one.
StopInv == /\ mpc = "quit" \/ Quitting => (Kind[mep] = "int" => mep \in Stoppable)
           /\ mpc = "wait" => Kind[mep] # "int"

\* A control transfer has stages: the last of its TDs is one of them.
StageInv == mpc = "ctrl_td" => mn > 0

QuitInv == SkipInv /\ PipesInv /\ LinkedInv /\ StopInv /\ StageInv

\* The ED of an endpoint that is not being quit.
LEMMA SettledEd ==
    ASSUME QuitInv, NEW e \in Eps, e # mep \/ ~Quitting, NEW u \in Units, info[u] = e
    PROVE  hwPipe[e] = u
  BY DEF QuitInv, PipesInv, OnePipe

\* An endpoint without an ED to be found has none, unless it is being quit or is
\* a control endpoint.
LEMMA NoEd ==
    ASSUME TypeInv, RemoveInv, OwnInv, QuitInv, NEW e \in Eps, e # mep \/ ~Quitting,
           Kind[e] # "ctrl", EdOf(e) = {}, med = 0 \/ info[med] # e,
           NEW u \in Units, info[u] = e
    PROVE  FALSE
  <1>1. u \in list[Kind[e]] \/ u = med
    BY DEF QuitInv, LinkedInv
  <1>2. u \in list[Kind[e]]
    BY <1>1 DEF Units
  <1>3. skip[u]
    BY <1>2 DEF EdOf
  <1>4. u \in Range(removeList)
    BY <1>3 DEF QuitInv, SkipInv
  <1>5. info[u] = mep
    BY <1>4, Zenon DEF OwnInv, EdsInv, RemovalInv
  <1>6. mpc \in {"arm", "delay"}
    BY <1>4, NoDupEmpty, Zenon DEF RemoveInv
  <1> QED BY <1>5, <1>6 DEF Quitting

\* What the interrupt handler has taken are TDs.
LEMMA WorkHead ==
    ASSUME TypeInv, OwnInv, work # <<>>
    PROVE  Head(work) \in Units /\ Head(work) \in Range(work) /\ info[Head(work)] = None
  <1>1. work \in Seq(Ptr)
    BY DEF TypeInv, IsrOK
  <1>2. Head(work) \in Range(work)
    BY <1>1 DEF Range
  <1>3. Range(work) \subseteq AllTds
    BY SpotsAre, ChainIs DEF AllTds, TdsOn
  <1> QED BY <1>2, <1>3 DEF OwnInv, TdsInv

\* Steps that leave the EDs and the pipes alone.
LEMMA QuitKeep ==
    ASSUME QuitInv, UNCHANGED <<info, list, removeList, hwPipe, mpc, mep, med, mn>>,
           \A u \in Units : skip'[u] => skip[u]
    PROVE  QuitInv'
  BY Zenon DEF QuitInv, SkipInv, PipesInv, OnePipe, LinkedInv, StopInv, StageInv, Quitting

LEMMA QuitHc ==
    ASSUME QuitInv, Hc
    PROVE  QuitInv'
  <1>1. UNCHANGED <<info, skip, list, removeList, hwPipe, mpc, mep, med, mn>>
    BY Zenon DEF Hc, HcFetch, HcNak, HcRetire, HcFrame, mem, links, main
  <1> QED BY <1>1, QuitKeep, Zenon

\* ohci_int_xfer for an endpoint nobody is quitting.
LEMMA QuitIntXfer ==
    ASSUME TypeInv, RemoveInv, OwnInv, QuitInv, NEW r \in Utrs, NEW e \in Eps,
           Kind[e] = "int", e # mep \/ ~Quitting,
           IntXferFail(e) \/ (~IntXferFails(e) /\ IntXferOk(r, e)),
           UNCHANGED <<removeList, mpc, mep, med, mn>>
    PROVE  QuitInv'
  <1>0. 0 \notin Units /\ None \notin Eps
    BY ConstAssumption DEF Units
  <1>a. /\ used \in [Units -> BOOLEAN] /\ info \in [Units -> Eps \cup {None}]
        /\ list \in [Kinds -> SUBSET Units] /\ hwPipe \in [Eps -> Ptr]
    BY DEF TypeInv, MemOK, LinksOK
  <1>b. StopInv' /\ StageInv'
    BY DEF QuitInv, StopInv, StageInv, Quitting
  <1>1. CASE IntXferFail(e)
    BY <1>1, QuitKeep DEF IntXferFail
  <1>2. CASE ~IntXferFails(e) /\ IntXferOk(r, e) /\ EdOf(e) # {}
    <2>1. PICK ed : /\ ed \in EdOf(e)
                    /\ hwPipe' = [hwPipe EXCEPT ![e] = ed]
                    /\ UNCHANGED <<info, skip, list>>
      BY <1>2 DEF IntXferOk
    <2>2. ed \in Units /\ info[ed] = e
      BY <1>a, <2>1, ConstAssumption DEF EdOf
    <2>3. hwPipe[e] = ed
      BY <2>2, SettledEd
    <2>4. hwPipe' = hwPipe
      BY <1>a, <2>1, <2>3
    <2> QED BY <2>1, <2>4, QuitKeep
  <1>3. CASE ~IntXferFails(e) /\ IntXferOk(r, e) /\ EdOf(e) = {}
    <2>1. PICK ed : ed = IntNewEd
      OBVIOUS
    <2>2. ed \in Units /\ info[ed] = None
      <3>1. PICK us \in [Units -> BOOLEAN] : us = Taken(used, IntNew)
        BY <1>a DEF Taken
      <3>2. \A u \in Units : used[u] => us[u]
        BY <1>a, <3>1 DEF Taken
      <3>3. ed = FirstFree(us) /\ ed # 0
        BY <1>3, <2>1, <3>1 DEF IntNewEd, IntXferFails
      <3> QED BY <3>2, <3>3, FreshUnit
    <2>3. /\ info' = [info EXCEPT ![ed] = e] /\ hwPipe' = [hwPipe EXCEPT ![e] = ed]
          /\ list' = [list EXCEPT !["int"] = @ \cup {ed}] /\ UNCHANGED skip
      BY <1>3, <2>1 DEF IntXferOk
    <2>4. \A u \in Units : info'[u] = IF u = ed THEN e ELSE info[u]
      BY <1>a, <2>3
    <2>5. \A u \in Units : info[u] # e
      <3>1. med = 0 \/ info[med] # e
        BY <1>0 DEF OwnInv, EdsInv, MedInv, KindInv, FreshEd
      <3> QED BY <1>3, <3>1, NoEd
    <2>6. SkipInv'
      BY <2>3 DEF QuitInv, SkipInv
    <2>7. PipesInv'
      <3>1. ASSUME NEW u \in Units, NEW f \in Eps, info'[u] = f PROVE OnePipe(u, f)'
        <4>1. CASE u = ed
          <5>1. f = e /\ hwPipe'[e] = ed
            BY <1>a, <2>3, <2>4, <3>1, <4>1
          <5> QED BY <4>1, <5>1 DEF OnePipe, Quitting
        <4>2. CASE u # ed
          <5>1. info[u] = f /\ f # e
            BY <2>4, <2>5, <3>1, <4>2
          <5>2. hwPipe'[f] = hwPipe[f]
            BY <1>a, <2>3, <5>1
          <5>3. OnePipe(u, f)
            BY <5>1 DEF QuitInv, PipesInv
          <5> QED BY <5>1, <5>2, <5>3, Zenon DEF OnePipe, Quitting
        <4> QED BY <4>1, <4>2
      <3> QED BY <3>1 DEF PipesInv, OnePipe
    <2>8. LinkedInv'
      <3>1. \A k \in Kinds : list[k] \subseteq list'[k]
        BY <1>a, <2>3
      <3>2. ed \in list'["int"]
        BY <1>a, <2>3 DEF Kinds
      <3>3. \A f \in Eps : Kind[f] \in Kinds
        BY ConstAssumption
      <3> QED BY <2>4, <3>1, <3>2, <3>3 DEF QuitInv, LinkedInv
    <2> QED BY <1>b, <2>6, <2>7, <2>8 DEF QuitInv
  <1> QED BY <1>1, <1>2, <1>3

\* Units go back that are no EDs.
LEMMA QuitFree ==
    ASSUME TypeInv, NEW S, FreeUnits(S), \A u \in S \cap Units : info[u] = None
    PROVE  info' = info /\ \A u \in Units : skip'[u] => skip[u]
  <1>1. info \in [Units -> Eps \cup {None}]
    BY DEF TypeInv, MemOK
  <1>2. info' = [u \in Units |-> IF u \in S THEN None ELSE info[u]]
    BY DEF FreeUnits
  <1>3. info' = info
    BY <1>1, <1>2
  <1>4. \A u \in Units : skip'[u] => skip[u]
    BY Zenon DEF FreeUnits
  <1> QED BY <1>3, <1>4

\* A callback submits again on a pipe nobody is quitting.
LEMMA ResubmitQuit ==
    ASSUME NoRace, TypeInv, QuitInv, NEW e \in Resubmits
    PROVE  e \in Eps /\ Kind[e] = "int" /\ (e # mep \/ ~Quitting)
  <1>1. e \in Eps /\ Kind[e] = "int"
    BY ConstAssumption
  <1>2. Quitting /\ e = mep => e \in Stoppable
    BY <1>1 DEF QuitInv, StopInv
  <1> QED BY <1>1, <1>2 DEF NoRace

LEMMA OneElement ==
    ASSUME NEW S, NEW s \in Seq(S), s # <<>>, Len(s) <= 1
    PROVE  Range(s) = {Head(s)}
  <1>1. Len(s) \in Nat /\ Len(s) # 0 /\ Head(s) = s[1] /\ DOMAIN s = 1..Len(s)
    OBVIOUS
  <1>2. Len(s) = 1
    BY <1>1
  <1>3. DOMAIN s = {1}
    BY <1>1, <1>2
  <1> QED BY <1>1, <1>3 DEF Range

LEMMA QuitIsr ==
    ASSUME NoRace, TypeInv, RemoveInv, OwnInv, QuitInv, Isr
    PROVE  QuitInv'
  <1>1. CASE IsrEnter \/ RemoveDone \/ TakeDoneList \/ TdDone \/ IsrExit
    <2>1. UNCHANGED <<info, skip, list, removeList, hwPipe, mpc, mep, med, mn>>
      BY <1>1, Zenon DEF IsrEnter, RemoveDone, TakeDoneList, TdDone, IsrExit, mem, links, main
    <2> QED BY <2>1, QuitKeep, Zenon
  <1>2. CASE RemoveEd
    <2>1. PICK ed \in Units : ed = Head(removeList)
      BY <1>2 DEF RemoveEd, TypeInv, LinksOK
    <2>2. /\ ipc = "remove" /\ removeList # <<>> /\ removeList \in Seq(Units)
          /\ removeList' = Tail(removeList)
          /\ UNCHANGED <<hwPipe, mpc, mep, med, mn>>
      BY <1>2, Zenon DEF RemoveEd, TypeInv, LinksOK, isr, main
    <2>3. mpc = "delay" /\ Len(removeList) <= 1
      BY <2>2, Zenon DEF RemoveInv
    <2>4. Range(removeList) = {ed}
      BY <2>1, <2>2, <2>3, OneElement
    <2>5. PICK S : /\ FreeUnits(S) /\ ed \in S
                   /\ \A k \in Kinds : \A u \in Units \ {ed} : u \in list[k] => u \in list'[k]
      <3>1. CASE ed \in list[Kind[info[ed]]]
        <4>1. list' = Unlinked(ed) /\ FreeUnits(UnitsUnder(ed))
          BY <1>2, <2>1, <3>1 DEF RemoveEd
        <4>2. \A k \in Kinds : \A u \in Units \ {ed} : u \in list[k] => u \in list'[k]
          BY <4>1 DEF Unlinked, TypeInv, LinksOK
        <4> QED BY <4>1, <4>2 DEF UnitsUnder
      <3>2. CASE ed \notin list[Kind[info[ed]]]
        <4>1. list' = list /\ FreeUnits({ed})
          BY <1>2, <2>1, <3>2 DEF RemoveEd
        <4> QED BY <4>1
      <3> QED BY <3>1, <3>2
    <2>6. \A u \in Units : info'[u] = IF u \in S THEN None ELSE info[u]
      BY <2>5 DEF FreeUnits
    <2>7. \A u \in Units : info'[u] \in Eps => u # ed /\ info'[u] = info[u]
      BY <2>5, <2>6, ConstAssumption
    <2>8. SkipInv'
      <3>1. \A u \in Units : skip'[u] => skip[u] /\ u # ed
        BY <2>5, Zenon DEF FreeUnits
      <3> QED BY <2>4, <3>1, Zenon DEF QuitInv, SkipInv
    <2>9. PipesInv'
      <3>1. ASSUME NEW u \in Units, NEW f \in Eps, info'[u] = f PROVE OnePipe(u, f)'
        <4>1. u # ed /\ info[u] = f
          BY <2>7, <3>1
        <4>2. OnePipe(u, f)
          BY <4>1 DEF QuitInv, PipesInv
        <4>3. f # mep
          BY <2>3, <2>4, <4>1, <4>2 DEF OnePipe, Quitting
        <4> QED BY <2>2, <4>2, <4>3 DEF OnePipe
      <3> QED BY <3>1 DEF PipesInv, OnePipe
    <2>10. LinkedInv'
      <3>1. \A f \in Eps : Kind[f] \in Kinds
        BY ConstAssumption
      <3> QED BY <2>2, <2>5, <2>7, <3>1 DEF QuitInv, LinkedInv
    <2>11. StopInv' /\ StageInv'
      BY <2>2, Zenon DEF QuitInv, StopInv, StageInv, Quitting
    <2> QED BY <2>8, <2>9, <2>10, <2>11 DEF QuitInv
  <1>3. CASE TdDoneResubmit
    <2>1. PICK r, e : /\ r = tdUtr[Head(work)] /\ e = utrEp[r]
                      /\ r # None /\ e \in Resubmits /\ work # <<>>
                      /\ IntXferFail(e) \/ (~IntXferFails(e) /\ IntXferOk(r, e))
      BY <1>3 DEF TdDoneResubmit, CallsResubmit
    <2>2. Head(work) \in Units
      BY <2>1, WorkHead
    <2>3. r \in Utrs
      BY <2>1, <2>2 DEF TypeInv, MemOK
    <2>4. UNCHANGED <<removeList, mpc, mep, med, mn>>
      BY <1>3, Zenon DEF TdDoneResubmit, main
    <2>5. e \in Eps /\ Kind[e] = "int" /\ (e # mep \/ ~Quitting)
      BY <2>1, ResubmitQuit
    <2> QED BY <2>1, <2>3, <2>4, <2>5, QuitIntXfer
  <1>4. CASE TdFree
    <2>1. FreeUnits({Head(work)}) /\ UNCHANGED <<list, removeList, hwPipe, mpc, mep, med, mn>>
      BY <1>4, Zenon DEF TdFree, Reclaimed, links, main
    <2>2. info[Head(work)] = None
      BY <1>4, WorkHead DEF TdFree, TypeInv
    <2>3. info' = info /\ \A u \in Units : skip'[u] => skip[u]
      BY <2>1, <2>2, QuitFree
    <2> QED BY <2>1, <2>3, QuitKeep
  <1> QED BY <1>1, <1>2, <1>3, <1>4 DEF Isr

\* Steps of the thread that leave the EDs alone and no pipe is being removed.
LEMMA QuitCalm ==
    ASSUME QuitInv, UNCHANGED <<info, list, removeList, hwPipe>>,
           \A u \in Units : skip'[u] => skip[u],
           med' = med \/ med = 0, ~Quitting, ~Quitting', StopInv', StageInv'
    PROVE  QuitInv'
  <1>1. SkipInv' /\ PipesInv'
    BY DEF QuitInv, SkipInv, PipesInv, OnePipe
  <1>2. LinkedInv'
    BY DEF QuitInv, LinkedInv, Units
  <1> QED BY <1>1, <1>2 DEF QuitInv

\* The thread fills an ED for its endpoint: the endpoint's own, or a fresh one of
\* an endpoint that has none.
LEMMA QuitFill ==
    ASSUME TypeInv, QuitInv, ~Quitting, ~Quitting', mep \in Eps, NEW ed \in Units,
           info[ed] = mep \/ (info[ed] = None /\ \A u \in Units : info[u] # mep),
           info' = [info EXCEPT ![ed] = mep], hwPipe' = [hwPipe EXCEPT ![mep] = ed],
           \A u \in Units : skip'[u] => skip[u], UNCHANGED <<removeList, mep>>,
           LinkedInv', StopInv', StageInv'
    PROVE  QuitInv'
  <1>0. None \notin Eps
    BY ConstAssumption
  <1>1. /\ \A u \in Units : info'[u] = IF u = ed THEN mep ELSE info[u]
        /\ \A e \in Eps : hwPipe'[e] = IF e = mep THEN ed ELSE hwPipe[e]
    BY DEF TypeInv, MemOK, LinksOK
  <1>2. \A u \in Units \ {ed} : info[u] # mep
    BY SettledEd
  <1>3. ASSUME NEW u \in Units, NEW f \in Eps, info'[u] = f PROVE OnePipe(u, f)'
    <2>1. CASE u = ed
      BY <1>1, <1>3, <2>1 DEF OnePipe
    <2>2. CASE u # ed
      <3>1. info[u] = f /\ f # mep
        BY <1>1, <1>2, <1>3, <2>2
      <3>2. OnePipe(u, f)
        BY <3>1 DEF QuitInv, PipesInv
      <3> QED BY <1>1, <3>1, <3>2 DEF OnePipe
    <2> QED BY <2>1, <2>2
  <1>4. PipesInv'
    BY <1>3 DEF PipesInv, OnePipe
  <1>5. SkipInv'
    BY DEF QuitInv, SkipInv
  <1> QED BY <1>4, <1>5 DEF QuitInv

\* Null pointers and TDs of one request: what the thread holds is no ED.
LEMMA HeldTds ==
    ASSUME OwnInv
    PROVE  \A t \in Range(mtds) : t \in Units /\ used[t] /\ info[t] = None /\ t # med
  <1>1. Range(mtds) \subseteq AllTds
    BY SpotsAre, ChainIs DEF AllTds, TdsOn
  <1> QED BY <1>1 DEF OwnInv, TdsInv

LEMMA QuitSubmit ==
    ASSUME TypeInv, RemoveInv, OwnInv, QuitInv, ~Exhausted,
           XferBegin \/ CtrlAllocTd \/ CtrlEd \/ CtrlLink \/ BulkEd \/ BulkAllocTd \/ BulkMemOut
              \/ BulkLink
    PROVE  QuitInv'
  <1>0. 0 \notin Units /\ None \notin Eps /\ {"ctrl", "bulk", "int"} \subseteq Kinds
    BY ConstAssumption DEF Units, Kinds
  <1>a. /\ used \in [Units -> BOOLEAN] /\ info \in [Units -> Eps \cup {None}]
        /\ skip \in [Units -> BOOLEAN]
        /\ hwPipe \in [Eps -> Ptr] /\ list \in [Kinds -> SUBSET Units]
        /\ mtds \in Seq(Ptr) /\ med \in Ptr /\ mn \in Nat
    BY DEF TypeInv, MemOK, LinksOK, MainOK
  <1>1. CASE XferBegin
    <2>1. /\ UNCHANGED <<info, skip, list, removeList, hwPipe, med>>
          /\ mpc = "idle" /\ mpc' \in {"ctrl_td", "bulk_ed"}
      BY <1>1, Zenon DEF XferBegin, mem, links
    <2>2. mpc' = "ctrl_td" => mn' > 0
      BY <1>1 DEF XferBegin
    <2> QED BY <2>1, <2>2, QuitCalm DEF StopInv, StageInv, Quitting
  <1>2. CASE CtrlAllocTd \/ BulkAllocTd
    <2>1. UNCHANGED <<info, skip, list, removeList, hwPipe, med, mpc, mep, mn>>
      BY <1>2, Zenon DEF CtrlAllocTd, BulkAllocTd, links
    <2> QED BY <2>1, QuitKeep
  <1>3. CASE CtrlEd
    <2>1. mpc = "ctrl_td" /\ Len(mtds) = mn /\ UNCHANGED <<list, removeList>>
      BY <1>3 DEF CtrlEd
    <2>2. med = 0 /\ Kind[mep] = "ctrl" /\ mep \in Eps
      BY <2>1 DEF OwnInv, EdsInv, MedInv, KindInv, TypeInv
    <2>3. CASE /\ UNCHANGED <<info, skip, hwPipe>> /\ mpc' = "ctrl_link"
      BY <2>1, <2>2, <2>3, QuitCalm DEF StopInv, StageInv, Quitting
    <2>4. CASE FreeUnits(Range(mtds)) /\ SubmitFails /\ (mtds[mn] = 0 \/ hwPipe[mep] = 0)
      <3>1. /\ hwPipe' = [hwPipe EXCEPT ![mep] = 0] /\ mpc' = "idle"
        BY <2>2, <2>4 DEF SubmitFails, Return
      <3>2. mtds[mn] \in Range(mtds)
        BY <1>a, <2>1 DEF QuitInv, StageInv, Range
      <3>3. hwPipe' = hwPipe
        BY <1>0, <1>a, <2>2, <2>4, <3>1, <3>2, HeldTds
      <3>4. info' = info /\ \A u \in Units : skip'[u] => skip[u]
        BY <2>4, HeldTds, QuitFree
      <3> QED BY <2>1, <2>2, <3>1, <3>3, <3>4, QuitCalm DEF StopInv, StageInv, Quitting
    <2> QED BY <1>3, <2>1, <2>3, <2>4 DEF CtrlEd
  <1>4. CASE CtrlLink
    <2>1. PICK ed \in Units : ed = med
      BY <1>4 DEF CtrlLink, TypeInv
    <2>2. /\ info' = [info EXCEPT ![ed] = mep] /\ skip' = [skip EXCEPT ![ed] = FALSE]
          /\ hwPipe' = [hwPipe EXCEPT ![mep] = ed] /\ list' = [list EXCEPT !["ctrl"] = {ed}]
          /\ mpc' = "wait" /\ UNCHANGED <<removeList, mep>>
      BY <1>4, <2>1 DEF CtrlLink
    <2>3. mpc = "ctrl_link" /\ mep \in Eps /\ Kind[mep] = "ctrl"
      BY <1>4 DEF CtrlLink, TypeInv, OwnInv, EdsInv, KindInv
    <2>4. info[ed] = mep \/ (info[ed] = None /\ \A u \in Units : info[u] # mep)
      <3>1. ASSUME NEW u \in Units, info[u] = mep PROVE hwPipe[mep] # 0
        BY <1>0, <2>3, <3>1, SettledEd DEF Quitting
      <3> QED BY <1>0, <2>1, <3>1 DEF OwnInv, EdsInv, MedInv, FreshEd
    <2>5. LinkedInv'
      <3>1. \A u \in Units : info'[u] = IF u = ed THEN mep ELSE info[u]
        BY <1>a, <2>2
      <3>2. \A k \in Kinds : k # "ctrl" => list'[k] = list[k]
        BY <1>a, <2>2
      <3>3. \A f \in Eps : Kind[f] \in Kinds
        BY ConstAssumption
      <3> QED BY <2>1, <2>3, <3>1, <3>2, <3>3 DEF QuitInv, LinkedInv
    <2>6. \A u \in Units : skip'[u] => skip[u]
      BY <1>a, <2>2
    <2> QED BY <2>2, <2>3, <2>4, <2>5, <2>6, QuitFill DEF StopInv, StageInv, Quitting
  <1>5. CASE BulkEd
    <2>1. mpc = "bulk_ed" /\ UNCHANGED <<skip, list, removeList>>
      BY <1>5 DEF BulkEd
    <2>2. med = 0 /\ Kind[mep] = "bulk" /\ mep \in Eps
      BY <2>1 DEF OwnInv, EdsInv, MedInv, KindInv, TypeInv
    <2>3. CASE SubmitFails /\ info' = info
      <3>1. hwPipe' = hwPipe /\ mpc' = "idle"
        BY <2>2, <2>3 DEF SubmitFails, Return
      <3> QED BY <2>1, <2>2, <2>3, <3>1, QuitCalm DEF StopInv, StageInv, Quitting
    <2>4. ASSUME NEW u, u = FirstFree(used), EdOf(mep) = {}, u # 0, info' = [info EXCEPT ![u] = mep],
                 hwPipe' = [hwPipe EXCEPT ![mep] = u], med' = u, mpc' = "bulk_td", mep' = mep
          PROVE  QuitInv'
      <3>1. u \in Units /\ info[u] = None
        BY <1>a, <2>4, FreshUnit
      <3>2. \A v \in Units : info[v] # mep
        BY <2>1, <2>2, <2>4, NoEd DEF Quitting
      <3>3. LinkedInv'
        BY <1>a, <2>1, <2>2, <2>4 DEF QuitInv, LinkedInv, Units
      <3> QED BY <2>1, <2>2, <2>4, <3>1, <3>2, <3>3, QuitFill DEF StopInv, StageInv, Quitting
    <2>5. ASSUME NEW ed \in EdOf(mep), info' = info,
                 hwPipe' = [hwPipe EXCEPT ![mep] = ed], med' = ed, mpc' = "bulk_td", mep' = mep
          PROVE  QuitInv'
      <3>1. ed \in Units /\ info[ed] = mep
        BY <1>a, <2>2, <2>5, ConstAssumption DEF EdOf
      <3>2. hwPipe[mep] = ed
        BY <2>1, <2>2, <3>1, SettledEd DEF Quitting
      <3>3. hwPipe' = hwPipe
        BY <1>a, <2>2, <2>5, <3>2
      <3> QED BY <2>1, <2>2, <2>5, <3>3, QuitCalm DEF StopInv, StageInv, Quitting
    <2>6. \/ SubmitFails /\ info' = info
          \/ \E u : /\ u = FirstFree(used) /\ EdOf(mep) = {} /\ u # 0
                    /\ info' = [info EXCEPT ![u] = mep] /\ hwPipe' = [hwPipe EXCEPT ![mep] = u]
                    /\ med' = u /\ mpc' = "bulk_td" /\ mep' = mep
          \/ \E ed \in EdOf(mep) : /\ info' = info /\ hwPipe' = [hwPipe EXCEPT ![mep] = ed]
                                   /\ med' = ed /\ mpc' = "bulk_td" /\ mep' = mep
      BY <1>5, Zenon DEF BulkEd
    <2> QED BY <2>3, <2>4, <2>5, <2>6
  <1>6. CASE BulkMemOut
    BY <1>6 DEF BulkMemOut, Exhausted
  <1>7. CASE BulkLink
    <2>1. /\ UNCHANGED <<info, skip, removeList, hwPipe, mep>> /\ mpc = "bulk_td" /\ mpc' = "wait"
          /\ list' = [list EXCEPT !["bulk"] = @ \cup {med}] /\ med' = 0
      BY <1>7 DEF BulkLink, links
    <2>2. Kind[mep] = "bulk" /\ med \in Units /\ info[med] = mep /\ mep \in Eps
      BY <1>0, <2>1 DEF OwnInv, EdsInv, KindInv, MedInv, FreshEd, TypeInv
    <2>3. LinkedInv'
      <3>1. \A k \in Kinds : list[k] \subseteq list'[k]
        BY <1>a, <2>1
      <3>2. med \in list'["bulk"]
        BY <1>0, <1>a, <2>1
      <3>3. \A f \in Eps : Kind[f] \in Kinds
        BY ConstAssumption
      <3> QED BY <2>1, <2>2, <3>1, <3>2, <3>3 DEF QuitInv, LinkedInv
    <2>4. SkipInv' /\ PipesInv'
      BY <2>1 DEF QuitInv, SkipInv, PipesInv, OnePipe, Quitting
    <2>5. StopInv' /\ StageInv'
      BY <2>1, <2>2 DEF StopInv, StageInv, Quitting
    <2> QED BY <2>3, <2>4, <2>5 DEF QuitInv
  <1> QED BY <1>1, <1>2, <1>3, <1>4, <1>5, <1>6, <1>7

LEMMA QuitRest ==
    ASSUME NoRace, TypeInv, RemoveInv, OwnInv, QuitInv,
           WaitDone \/ WaitTimeout \/ QuitEp \/ IntStart \/ HubResubmit \/ IntStop \/ Quit
              \/ ArmSf \/ DelayOver \/ QuitDone
    PROVE  QuitInv'
  <1>0. 0 \notin Units /\ None \notin Eps
    BY ConstAssumption DEF Units
  <1>a. med = 0
    BY DEF WaitDone, WaitTimeout, QuitEp, IntStart, HubResubmit, IntStop, Quit, ArmSf, DelayOver,
           QuitDone, OwnInv, EdsInv, MedInv
  <1>1. CASE WaitDone \/ WaitTimeout \/ QuitEp \/ IntStop
    <2>1. /\ UNCHANGED <<info, skip, list, removeList, hwPipe>>
          /\ \/ mpc' = "idle"
             \/ mpc = "wait" /\ mpc' = "quit" /\ mep' = mep
             \/ mpc = "idle" /\ mpc' = "quit" /\ (Kind[mep'] = "int" => mep' \in Stoppable)
          /\ mpc \in {"idle", "wait"}
      BY <1>1, Zenon DEF WaitDone, WaitTimeout, QuitEp, IntStop, Return, mem, links
    <2>2. StopInv' /\ StageInv'
      BY <2>1 DEF QuitInv, StopInv, StageInv, Quitting
    <2> QED BY <1>a, <2>1, <2>2, QuitCalm DEF Quitting
  <1>2. CASE IntStart \/ HubResubmit
    <2>1. PICK e \in Eps, r \in Utrs : /\ Kind[e] = "int"
                                       /\ IntXferFail(e) \/ (~IntXferFails(e) /\ IntXferOk(r, e))
      <3>1. CASE IntStart
        BY <3>1 DEF IntStart
      <3>2. CASE HubResubmit
        BY <3>2 DEF HubResubmit, TypeInv, MainOK
      <3> QED BY <1>2, <3>1, <3>2
    <2>2. UNCHANGED <<removeList, mpc, mep, med, mn>> /\ mpc = "idle"
      BY <1>2, Zenon DEF IntStart, HubResubmit, main
    <2> QED BY <2>1, <2>2, QuitIntXfer DEF Quitting
  <1>3. CASE Quit
    <2>1. UNCHANGED <<info, list, hwPipe, med, mep>> /\ mpc = "quit" /\ mep \in Eps
      BY <1>3 DEF Quit, TypeInv
    <2>2. removeList = <<>>
      BY <2>1, Zenon DEF RemoveInv
    <2>3. PICK ed : ed = hwPipe[mep]
      OBVIOUS
    <2>4. \A u \in Units : info[u] = mep => u = ed
      BY <2>1, <2>3, SettledEd DEF Quitting
    <2>5. PipesInv' /\ SkipInv'
      <3>1. CASE ed = 0 /\ mpc' = "quit_done" /\ UNCHANGED <<skip, removeList>>
        BY <1>0, <2>1, <2>4, <3>1 DEF QuitInv, PipesInv, OnePipe, Quitting, SkipInv
      <3>2. CASE mpc' = "arm" /\ skip' = [skip EXCEPT ![ed] = TRUE] /\ removeList' = <<ed>> \o removeList
        <4>1. removeList' = <<ed>>
          BY <2>2, <3>2
        <4>2. Range(removeList') = {ed}
          BY <4>1 DEF Range
        <4>3. \A u \in Units : ~skip[u]
          BY <2>2, NoDupEmpty DEF QuitInv, SkipInv
        <4>4. SkipInv'
          BY <3>2, <4>2, <4>3 DEF SkipInv, TypeInv, MemOK
        <4>5. PipesInv'
          BY <2>1, <2>4, <3>2, <4>2 DEF QuitInv, PipesInv, OnePipe, Quitting
        <4> QED BY <4>4, <4>5
      <3>3. ed \in Range(removeList) => FALSE
        BY <2>2, NoDupEmpty
      <3> QED BY <1>3, <2>3, <3>1, <3>2, <3>3 DEF Quit, NothingToQuit, WithRemoved
    <2>6. LinkedInv'
      BY <2>1 DEF QuitInv, LinkedInv
    <2>7. StopInv' /\ StageInv'
      <3>1. mpc' \in {"arm", "quit_done"}
        BY <1>3 DEF Quit
      <3> QED BY <2>1, <3>1 DEF QuitInv, StopInv, StageInv, Quitting
    <2> QED BY <2>5, <2>6, <2>7 DEF QuitInv
  <1>4. CASE ArmSf \/ DelayOver
    <2>1. /\ UNCHANGED <<info, skip, list, hwPipe, removeList, mep, med>>
          /\ Quitting /\ Quitting' /\ mpc' \in {"delay", "quit_done"}
      BY <1>4 DEF ArmSf, DelayOver, mem, links, Quitting
    <2>2. SkipInv' /\ PipesInv' /\ LinkedInv'
      BY <2>1 DEF QuitInv, SkipInv, PipesInv, OnePipe, LinkedInv
    <2>3. StopInv' /\ StageInv'
      BY <2>1 DEF QuitInv, StopInv, StageInv
    <2> QED BY <2>2, <2>3 DEF QuitInv
  <1>5. CASE QuitDone
    <2>1. /\ UNCHANGED <<info, skip, list, removeList>> /\ med' = 0 /\ mpc = "quit_done" /\ mpc' = "idle"
          /\ hwPipe' = [hwPipe EXCEPT ![mep] = 0] /\ mep \in Eps
      BY <1>5 DEF QuitDone, Return, mem, TypeInv
    <2>2. Range(removeList) = {}
      BY <2>1, NoDupEmpty, Zenon DEF RemoveInv
    <2>3. \A u \in Units : info[u] \in Eps => info[u] # mep /\ hwPipe[info[u]] = u
      BY <2>1, <2>2 DEF QuitInv, PipesInv, OnePipe, Quitting
    <2>4. PipesInv'
      BY <2>1, <2>3 DEF PipesInv, OnePipe, Quitting, TypeInv, LinksOK
    <2>5. SkipInv' /\ LinkedInv'
      BY <1>a, <2>1 DEF QuitInv, SkipInv, LinkedInv
    <2>6. StopInv' /\ StageInv'
      BY <2>1 DEF StopInv, StageInv, Quitting
    <2> QED BY <2>4, <2>5, <2>6 DEF QuitInv
  <1> QED BY <1>1, <1>2, <1>3, <1>4, <1>5

LEMMA QuitInit == Init => QuitInv
  BY ConstAssumption DEF Init, QuitInv, SkipInv, PipesInv, LinkedInv, StopInv, StageInv, Quitting

LEMMA QuitNext ==
    ASSUME NoRace, TypeInv, RemoveInv, OwnInv, QuitInv, ~Exhausted, [Next]_vars
    PROVE  QuitInv'
  <1>1. CASE UNCHANGED vars
    <2>1. UNCHANGED <<info, skip, list, removeList, hwPipe, mpc, mep, med, mn>>
      BY <1>1, Zenon DEF vars, mem, links, main
    <2> QED BY <2>1, QuitKeep, Zenon
  <1> QED BY <1>1, QuitHc, QuitIsr, QuitSubmit, QuitRest DEF Next, Main

\* Once a pipe was quit the controller has no ED of that endpoint left, for every
\* pool, as long as no submission meets an exhausted pool and no pipe that is
\* stopped submits again from its callback: ohci_quit_xfer removes the one ED
\* the endpoint has.
THEOREM QuitIsFinalHolds == NoRace => (Spec /\ []~Exhausted => []QuitIsFinal)
  <1> SUFFICES ASSUME NoRace PROVE Spec /\ []~Exhausted => []QuitIsFinal
    OBVIOUS
  <1>1. TypeInv /\ RemoveInv /\ OwnInv /\ QuitInv => QuitIsFinal
    <2> SUFFICES ASSUME TypeInv, QuitInv, NEW e \in Eps, mpc = "idle", hwPipe[e] = 0,
                        NEW u \in list[Kind[e]], info[u] = e
                 PROVE  FALSE
      BY DEF QuitIsFinal
    <2>0. Kind[e] \in Kinds
      BY ConstAssumption
    <2>1. u \in Units /\ u # 0
      BY <2>0 DEF TypeInv, LinksOK, Units
    <2> QED BY <2>1, SettledEd DEF Quitting
  <1>2. TypeInv /\ RemoveInv /\ OwnInv /\ QuitInv /\ ~Exhausted /\ [Next]_vars => QuitInv'
    BY QuitNext
  <1> QED BY <1>1, <1>2, QuitInit, OwnHolds, PTL DEF Spec

-----------------------------------------------------------------------------
(* The requests.                                                           *)

\* A callback submits again and there is no unit left: it frees the request the
\* owner of the pipe still knows.
Dropped == /\ ipc = "td_done" /\ work # <<>>
           /\ CallsResubmit(Head(work), tdUtr[Head(work)])
           /\ IntXferFails(utrEp[tdUtr[Head(work)]])
Starved == Exhausted \/ Dropped

Submitting == mpc \in {"ctrl_td", "ctrl_link", "bulk_ed", "bulk_td"}
IsInt(u) == info[u] \in Eps /\ Kind[info[u]] = "int"

\* TDs the controller has not retired or the ISR not yet counted: Outstanding
\* looks at the queues of the active EDs only.
Queued == UNION {Range(queue[u]) : u \in Units}
Todo == IF ipc = "td_free" THEN Range(Tail(work)) ELSE Range(work)
Pend == Queued \cup Range(hcDone) \cup Range(hccaDone) \cup Todo
Out(r) == {t \in Pend : tdUtr[t] = r}

\* The call in progress: its request is allocated and for its endpoint.
CallInv ==
    /\ mpc = "idle" => mu = None
    /\ mpc \notin {"ctrl_td", "ctrl_link", "bulk_td"} => mtds = <<>>
    /\ mpc = "ctrl_link" => Len(mtds) = mn
    /\ mu = None => mpc \in {"idle", "quit"} \/ Quitting
    /\ mu # None => alive[mu] /\ utrEp[mu] = mep
    /\ Submitting => ~done[mu]
    /\ mpc = "wait" \/ (mpc = "quit" /\ mu # None) => hwPipe[mep] # 0
    /\ mpc # "idle" /\ Kind[mep] = "int" => slot[mep] = None

\* The request of an interrupt pipe, from its start to its stop.
SlotInv == \A e \in Eps : slot[e] # None =>
              /\ alive[slot[e]] /\ utrEp[slot[e]] = e /\ hwPipe[e] # 0 /\ Kind[e] = "int"

\* The done queue is handed over.  After the first frame of the delay no TD of
\* the request that is being quit is waiting for the next one.
HandInv ==
    /\ ~wdh => hccaDone = <<>>
    /\ ipc \notin {"td_done", "td_free"} => work = <<>>
    /\ mpc = "delay" /\ frames = 0 => ~wdh /\ ipc = "idle" /\ ~sf
    /\ mpc = "delay" /\ frames > 0 /\ mu # None => \A t \in Range(hcDone) : tdUtr[t] # mu

\* Whose TD is whose.
OwnerInv ==
    /\ \A u \in Units : ~used[u] => tdUtr[u] = None
    /\ \A t \in Range(mtds) : tdUtr[t] = mu
    /\ \A t \in Range(hcDone) \cup Range(hccaDone) \cup Range(work) : tdUtr[t] # None
    /\ \A t \in AllTds : tdUtr[t] # None => alive[tdUtr[t]]

\* An interrupt ED ends in a dummy; the TDs before it are for its endpoint.
IntQueueInv == \A u \in Units : IsInt(u) =>
    /\ queue[u] # <<>> /\ tdUtr[Last(queue[u])] = None
    /\ \A t \in Range(queue[u]) \ {Last(queue[u])} :
          tdUtr[t] # None /\ utrEp[tdUtr[t]] = info[u]
    /\ hcEd = u => Len(queue[u]) > 1

\* TDs of a control or bulk pipe are those of the call that waits for them.
SyncQueueInv == \A u \in Units : info[u] \in Eps /\ ~IsInt(u) /\ queue[u] # <<>> =>
    /\ info[u] = mep /\ mpc \in {"wait", "quit", "arm", "delay"} /\ mu # None
    /\ u \in list[Kind[info[u]]]
    /\ \A t \in Range(queue[u]) : tdUtr[t] = mu

\* td_cnt counts.
RequestInv == \A r \in Utrs :
    /\ alive[r] => utrEp[r] \in Eps
    /\ ~alive[r] => tdCnt[r] = 0 /\ ~done[r]
    /\ alive[r] /\ ~(r = mu /\ Submitting) => tdCnt[r] = Cardinality(Out(r))
    /\ alive[r] /\ done[r] /\ Kind[utrEp[r]] # "int" => tdCnt[r] = 0
StageCntInv ==
    /\ Submitting => Out(mu) = {}
    /\ mpc = "bulk_ed" => tdCnt[mu] = 0
    /\ mpc = "bulk_td" => tdCnt[mu] = Len(mtds)
    /\ mpc = "quit_done" /\ mu # None => Out(mu) = {}

QueuesInv == IntQueueInv /\ SyncQueueInv
CountInv == RequestInv /\ StageCntInv
ReqInv == CallInv /\ SlotInv /\ HandInv /\ OwnerInv /\ QueuesInv /\ CountInv

-----------------------------------------------------------------------------
(* Chains.                                                                 *)

LEMMA LastFacts ==
    ASSUME NEW S, NEW s \in Seq(S), s # <<>>
    PROVE  /\ Last(s) \in Range(s) /\ Last(s) \in S
           /\ NoDup(s) /\ Len(s) > 1 => /\ Head(s) # Last(s) /\ Tail(s) # <<>>
                                        /\ Last(Tail(s)) = Last(s)
           /\ \A n \in S : Last(Append(s, n)) = n /\ Len(Append(s, n)) = Len(s) + 1
  <1>1. /\ Len(s) \in Nat /\ Len(s) # 0 /\ DOMAIN s = 1..Len(s) /\ Head(s) = s[1]
        /\ Tail(s) \in Seq(S) /\ Len(Tail(s)) = Len(s) - 1
        /\ \A i \in 1..(Len(s) - 1) : Tail(s)[i] = s[i + 1]
    OBVIOUS
  <1>2. Len(s) \in DOMAIN s /\ s[Len(s)] \in S
    BY <1>1
  <1>3. Last(s) \in Range(s) /\ Last(s) \in S
    BY <1>2 DEF Last, Range
  <1>4. ASSUME NoDup(s), Len(s) > 1
        PROVE  Head(s) # Last(s) /\ Tail(s) # <<>> /\ Last(Tail(s)) = Last(s)
    <2>1. 1 \in DOMAIN s /\ 1 # Len(s)
      BY <1>1, <1>4
    <2>2. Head(s) # Last(s)
      BY <1>1, <1>2, <1>4, <2>1 DEF NoDup, Last
    <2>3. Len(s) - 1 \in 1..(Len(s) - 1) /\ (Len(s) - 1) + 1 = Len(s)
      BY <1>1, <1>4
    <2>4. Tail(s)[Len(s) - 1] = s[Len(s)]
      BY <1>1, <2>3
    <2>5. Tail(s) # <<>>
      <3>0. Len(Tail(s)) > 0
        BY <1>1, <1>4
      <3>1. PICK r \in Seq(S) : r = Tail(s)
        BY <1>1
      <3>2. Len(r) > 0
        BY <3>0, <3>1
      <3>3. r # <<>>
        BY <3>2
      <3> QED BY <3>1, <3>3
    <2> QED BY <1>1, <2>2, <2>4, <2>5 DEF Last
  <1>5. ASSUME NEW n \in S PROVE Last(Append(s, n)) = n /\ Len(Append(s, n)) = Len(s) + 1
    <2>1. Len(Append(s, n)) = Len(s) + 1 /\ Append(s, n)[Len(s) + 1] = n
      OBVIOUS
    <2> QED BY <2>1 DEF Last
  <1> QED BY <1>3, <1>4, <1>5

LEMMA LastPair ==
    ASSUME NEW x, NEW n
    PROVE  Last(<<x, n>>) = n /\ Len(<<x, n>>) = 2 /\ <<x, n>> # <<>> /\ Range(<<x, n>>) = {x, n}
  BY DEF Last, Range

\* The chains by name.
LEMMA TdSets ==
    /\ AllTds = Range(mtds) \cup Range(hcDone) \cup Range(hccaDone) \cup Range(work) \cup Queued
    /\ \A u \in Units : Range(queue[u]) \subseteq Queued
  <1>1. \A p \in Spots : TdsOn(p) \subseteq Range(mtds) \cup Range(hcDone) \cup Range(hccaDone)
                                              \cup Range(work) \cup Queued
    BY SpotsAre, ChainIs DEF TdsOn, Queued
  <1>2. Range(mtds) \cup Range(hcDone) \cup Range(hccaDone) \cup Range(work) \cup Queued \subseteq AllTds
    <2>1. \A p \in Spots : Range(Chain(p)) \subseteq AllTds
      BY DEF AllTds, TdsOn
    <2>2. /\ Range(mtds) \subseteq AllTds /\ Range(hcDone) \subseteq AllTds
          /\ Range(hccaDone) \subseteq AllTds /\ Range(work) \subseteq AllTds
      BY <2>1, SpotsAre, ChainIs
    <2>3. \A u \in Units : Range(queue[u]) \subseteq AllTds
      BY <2>1, SpotsAre, ChainIs
    <2> QED BY <2>2, <2>3 DEF Queued
  <1>3. \A u \in Units : Range(queue[u]) \subseteq Queued
    BY DEF Queued
  <1> QED BY <1>1, <1>2, <1>3 DEF AllTds

\* The same after a step.
LEMMA TdSetsNext ==
    AllTds' = Range(mtds') \cup Range(hcDone') \cup Range(hccaDone') \cup Range(work') \cup Queued'
  <1>1. \A p \in Spots : TdsOn(p)' \subseteq Range(mtds') \cup Range(hcDone') \cup Range(hccaDone')
                                              \cup Range(work') \cup Queued'
    BY SpotsAre, ChainIs DEF TdsOn, Queued
  <1>2. \A p \in Spots : Range(Chain(p)') \subseteq AllTds'
    BY DEF AllTds, TdsOn, Spots
  <1>3. /\ Range(mtds') \subseteq AllTds' /\ Range(hcDone') \subseteq AllTds'
        /\ Range(hccaDone') \subseteq AllTds' /\ Range(work') \subseteq AllTds'
    BY <1>2, SpotsAre, ChainIs
  <1>4. \A u \in Units : Range(queue'[u]) \subseteq AllTds'
    BY <1>2, SpotsAre, ChainIs
  <1>5. Queued' \subseteq AllTds'
    BY <1>4 DEF Queued
  <1>6. AllTds' \subseteq Range(mtds') \cup Range(hcDone') \cup Range(hccaDone')
                                              \cup Range(work') \cup Queued'
    BY <1>1 DEF AllTds, Spots
  <1> QED BY <1>3, <1>5, <1>6

\* The queues of a step, ED by ED.
LEMMA QueuedNext ==
    /\ \A x : x \in Queued <=> \E u \in Units : x \in Range(queue[u])
    /\ \A x : x \in Queued' <=> \E u \in Units : x \in Range(queue'[u])
  BY DEF Queued

LEMMA Apart ==
    ASSUME OwnInv
    PROVE  /\ NoDup(mtds) /\ NoDup(work) /\ NoDup(hcDone) /\ NoDup(hccaDone)
           /\ Range(mtds) \cap (Range(hcDone) \cup Range(hccaDone) \cup Range(work) \cup Queued) = {}
           /\ Range(work) \cap (Range(hcDone) \cup Range(hccaDone) \cup Queued) = {}
           /\ (Range(hcDone) \cup Range(hccaDone)) \cap Queued = {}
           /\ \A u \in Units : NoDup(queue[u])
           /\ \A u, v \in Units : u # v => Range(queue[u]) \cap Range(queue[v]) = {}
  <1> DEFINE m == <<"main", 0>>  h == <<"hc", 0>>  c == <<"hcca", 0>>  w == <<"isr", 0>>
             q(u) == <<"ed", u>>
  <1>1. /\ m \in Spots /\ h \in Spots /\ c \in Spots /\ w \in Spots /\ \A u \in Units : q(u) \in Spots
        /\ m # h /\ m # c /\ m # w /\ h # w /\ c # w
        /\ \A u \in Units : q(u) # m /\ q(u) # h /\ q(u) # c /\ q(u) # w
        /\ \A u, v \in Units : u # v => q(u) # q(v)
    BY SpotsAre
  <1>2. /\ TdsOn(m) = Range(mtds) /\ TdsOn(h) = Range(hcDone) /\ TdsOn(c) = Range(hccaDone)
        /\ TdsOn(w) = Range(work) /\ \A u \in Units : TdsOn(q(u)) = Range(queue[u])
        /\ Chain(m) = mtds /\ Chain(h) = hcDone /\ Chain(c) = hccaDone /\ Chain(w) = work
        /\ \A u \in Units : Chain(q(u)) = queue[u]
    BY ChainIs DEF TdsOn
  <1> HIDE DEF m, h, c, w, q
  <1>3. \A p \in Spots : NoDup(Chain(p))
    BY DEF OwnInv, ChainsInv
  <1>4. \A p, r \in Spots : p # r => TdsOn(p) \cap TdsOn(r) = {}
    BY DEF OwnInv, ChainsInv
  <1>5. NoDup(mtds) /\ NoDup(work) /\ NoDup(hcDone) /\ NoDup(hccaDone) /\ \A u \in Units : NoDup(queue[u])
    BY <1>1, <1>2, <1>3
  <1>6. /\ Range(mtds) \cap Range(hcDone) = {} /\ Range(mtds) \cap Range(hccaDone) = {}
        /\ Range(mtds) \cap Range(work) = {}
        /\ Range(work) \cap Range(hcDone) = {} /\ Range(work) \cap Range(hccaDone) = {}
    BY <1>1, <1>2, <1>4
  <1>7. \A u \in Units : Range(queue[u]) \cap
           (Range(mtds) \cup Range(hcDone) \cup Range(hccaDone) \cup Range(work)) = {}
    BY <1>1, <1>2, <1>4
  <1>8. \A u, v \in Units : u # v => Range(queue[u]) \cap Range(queue[v]) = {}
    BY <1>1, <1>2, <1>4
  <1>9. Queued \cap (Range(mtds) \cup Range(hcDone) \cup Range(hccaDone) \cup Range(work)) = {}
    BY <1>7 DEF Queued
  <1> QED BY <1>5, <1>6, <1>8, <1>9

\* What is outstanding are TDs, and of requests that are allocated.
LEMMA PendFacts ==
    ASSUME TypeInv, OwnInv
    PROVE  /\ Pend \subseteq AllTds /\ Pend \cap Range(mtds) = {}
           /\ Pend \subseteq Units /\ IsFiniteSet(Pend)
           /\ \A r : IsFiniteSet(Out(r)) /\ Out(r) \subseteq Units
           /\ OwnerInv => \A r \in Utrs : ~alive[r] => Out(r) = {}
  <1>1. Todo \subseteq Range(work)
    <2>1. CASE ipc = "td_free"
      <3>1. work \in Seq(Ptr) /\ work # <<>>
        BY <2>1 DEF TypeInv, IsrOK
      <3>2. NoDup(work)
        BY Apart
      <3>3. Range(Tail(work)) = Range(work) \ {Head(work)}
        BY <3>1, <3>2, NoDupTail
      <3> QED BY <2>1, <3>3 DEF Todo
    <2>2. CASE ipc # "td_free"
      BY <2>2 DEF Todo
    <2> QED BY <2>1, <2>2
  <1>2. Pend \subseteq AllTds /\ Pend \cap Range(mtds) = {}
    BY <1>1, TdSets, Apart DEF Pend
  <1>3. Pend \subseteq Units
    BY <1>2 DEF OwnInv, TdsInv
  <1>4. IsFiniteSet(Units)
    BY FS_Interval, ConstAssumption DEF Units
  <1>5. IsFiniteSet(Pend)
    BY <1>3, <1>4, FS_Subset
  <1>6. \A r : Out(r) \subseteq Pend
    BY DEF Out
  <1>7. \A r : IsFiniteSet(Out(r)) /\ Out(r) \subseteq Units
    BY <1>3, <1>5, <1>6, FS_Subset
  <1>8. OwnerInv => \A r \in Utrs : ~alive[r] => Out(r) = {}
    BY <1>2, ConstAssumption DEF OwnerInv, Out
  <1> QED BY <1>2, <1>3, <1>5, <1>7, <1>8

-----------------------------------------------------------------------------
(* What a step leaves alone.                                               *)

LEMMA CallKeep ==
    ASSUME TypeInv, CallInv, SlotInv, UNCHANGED <<mpc, mu, mep, mtds, mn, slot, alive, utrEp>>,
           Submitting => done'[mu] = done[mu], \A e \in Eps : hwPipe[e] # 0 => hwPipe'[e] # 0
    PROVE  CallInv' /\ SlotInv'
  <1>1. CallInv'
    BY DEF CallInv, Submitting, Quitting, TypeInv
  <1>2. SlotInv'
    BY DEF SlotInv
  <1> QED BY <1>1, <1>2

LEMMA OutSame ==
    ASSUME Pend' = Pend, \A t \in Pend : tdUtr'[t] = tdUtr[t]
    PROVE  \A r : Out(r)' = Out(r)
  BY DEF Out

LEMMA CountKeep ==
    ASSUME CountInv, UNCHANGED <<alive, utrEp, tdCnt, done, mpc, mu, mtds>>,
           Pend' = Pend, \A t \in Pend : tdUtr'[t] = tdUtr[t]
    PROVE  CountInv'
  <1>1. \A r : Out(r)' = Out(r)
    BY OutSame
  <1>2. RequestInv'
    BY <1>1 DEF CountInv, RequestInv, Submitting
  <1>3. PICK m : m = mu
    OBVIOUS
  <1>4. Out(m)' = Out(m) /\ mu' = m
    BY <1>1, <1>3
  <1>5. Out(mu)' = Out(mu)
    BY <1>3, <1>4 DEF Out
  <1>6. StageCntInv'
    BY <1>5 DEF CountInv, StageCntInv, Submitting
  <1> QED BY <1>2, <1>6 DEF CountInv

LEMMA OwnerKeep ==
    ASSUME OwnerInv, UNCHANGED <<used, mtds, mu, alive, tdUtr>>, AllTds' \subseteq AllTds,
           Range(hcDone)' \cup Range(hccaDone)' \cup Range(work)'
              \subseteq Range(hcDone) \cup Range(hccaDone) \cup Range(work)
    PROVE  OwnerInv'
  BY DEF OwnerInv

LEMMA QueuesKeep ==
    ASSUME QueuesInv, UNCHANGED <<info, queue, list, mep, mpc, mu, utrEp>>,
           \A u \in Units : \A t \in Range(queue[u]) : tdUtr'[t] = tdUtr[t],
           \A u \in Units : IsInt(u) => Last(queue[u]) \in Range(queue[u]),
           \A u \in Units : hcEd' = u /\ IsInt(u) => Len(queue[u]) > 1
    PROVE  QueuesInv'
  <1>1. IntQueueInv'
    BY DEF QueuesInv, IntQueueInv, IsInt
  <1>2. SyncQueueInv'
    BY DEF QueuesInv, SyncQueueInv, IsInt
  <1> QED BY <1>1, <1>2 DEF QueuesInv

LEMMA HandKeep ==
    ASSUME HandInv, UNCHANGED <<wdh, hccaDone, ipc, work, mpc, frames, sf, hcDone, tdUtr, mu>>
    PROVE  HandInv'
  BY Zenon DEF HandInv

\* The queue of an interrupt ED: at least the dummy, no TD twice.
LEMMA IntQueue ==
    ASSUME TypeInv, OwnInv, QueuesInv, NEW u \in Units, IsInt(u)
    PROVE  /\ queue[u] \in Seq(Ptr) /\ queue[u] # <<>> /\ NoDup(queue[u])
           /\ Last(queue[u]) \in Range(queue[u]) /\ Last(queue[u]) \in Units
  <1>1. queue[u] \in Seq(Ptr) /\ queue[u] # <<>>
    BY DEF QueuesInv, IntQueueInv, TypeInv, MemOK
  <1>2. NoDup(queue[u])
    BY Apart
  <1>3. Last(queue[u]) \in Range(queue[u])
    BY <1>1, LastFacts
  <1>4. Last(queue[u]) \in Units
    BY <1>3, TdSets DEF OwnInv, TdsInv
  <1> QED BY <1>1, <1>2, <1>3, <1>4

-----------------------------------------------------------------------------
(* The controller.                                                         *)

LEMMA ReqHc ==
    ASSUME TypeInv, RemoveInv, OwnInv, QuitInv, ReqInv, Hc
    PROVE  ReqInv'
  <1>0. 0 \notin Units /\ None \notin Eps /\ None \notin Utrs
    BY ConstAssumption DEF Units
  <1>a. /\ UNCHANGED <<used, info, tdUtr, list, hwPipe, mpc, mu, mep, mtds, mn, slot, work, ipc>>
        /\ UNCHANGED <<alive, utrEp, tdCnt, done>>
    BY Zenon DEF Hc, HcFetch, HcNak, HcRetire, HcFrame, mem, links, utrs, isr, main
  <1>b. CallInv' /\ SlotInv'
    BY <1>a, CallKeep DEF ReqInv
  <1>1. CASE HcFetch \/ HcNak
    <2>1. UNCHANGED <<queue, hcDone, hccaDone, wdh, sf, frames>>
      BY <1>1, Zenon DEF HcFetch, HcNak, mem, main
    <2>2. HandInv'
      BY <1>a, <2>1, HandKeep, Zenon DEF ReqInv
    <2>3. Pend' = Pend /\ AllTds' = AllTds
      <3>1. Queued' = Queued /\ Todo' = Todo
        BY <1>a, <2>1 DEF Queued, Todo
      <3>2. AllTds' = AllTds
        BY <1>a, <2>1, ChainsStay DEF OwnInv
      <3> QED BY <2>1, <3>1, <3>2 DEF Pend
    <2>4. CountInv'
      BY <1>a, <2>3, CountKeep DEF ReqInv
    <2>5. OwnerInv'
      BY <1>a, <2>1, <2>3, OwnerKeep DEF ReqInv
    <2>6. \A u \in Units : hcEd' = u /\ IsInt(u) => Len(queue[u]) > 1
      <3>1. CASE HcFetch
        BY <3>1 DEF HcFetch, HasWork, IsInt
      <3>2. CASE HcNak
        BY <1>0, <3>2 DEF HcNak
      <3> QED BY <1>1, <3>1, <3>2
    <2>7. QueuesInv'
      BY <1>a, <2>1, <2>6, IntQueue, QueuesKeep DEF ReqInv
    <2> QED BY <1>b, <2>2, <2>4, <2>5, <2>7 DEF ReqInv
  <1>2. CASE HcRetire
    <2>1. PICK ed \in Units : ed = hcEd
      BY <1>2 DEF HcRetire, TypeInv, HcOK, Units, Ptr
    <2>2. PICK q \in Seq(Ptr) : q = queue[ed]
      BY <2>1 DEF TypeInv, MemOK
    <2>3. PICK t : t = Head(q)
      OBVIOUS
    <2>4. /\ q # <<>> /\ queue' = [queue EXCEPT ![ed] = Tail(q)] /\ hcDone' = <<t>> \o hcDone
          /\ hcEd' = 0 /\ UNCHANGED <<hccaDone, wdh, sf, frames>>
      BY <1>2, <2>1, <2>2, <2>3 DEF HcRetire, main
    <2>5. queue'[ed] = Tail(q) /\ \A u \in Units \ {ed} : queue'[u] = queue[u]
      BY <2>4 DEF TypeInv, MemOK
    <2>6. NoDup(q) /\ hcDone \in Seq(Ptr) /\ t \in Ptr
      BY <2>2, <2>3, <2>4, Apart DEF TypeInv, HcOK
    <2>7. NoDup(Tail(q)) /\ Range(Tail(q)) = Range(q) \ {t} /\ t \in Range(q)
      BY <2>3, <2>4, <2>6, NoDupTail
    <2>8. Range(hcDone') = Range(hcDone) \cup {t}
      <3>1. NoDup(hcDone) /\ t \notin Range(hcDone)
        BY <2>1, <2>2, <2>7, Apart, TdSets
      <3>2. Range(<<t>> \o hcDone) = Range(hcDone) \cup {t}
        BY <2>6, <3>1, NoDupCons
      <3> QED BY <2>4, <3>2
    <2>9. \A u \in Units : u # ed => t \notin Range(queue[u])
      BY <2>2, <2>7, Apart
    <2>10. Queued' = Queued \ {t}
      <3>1. ASSUME NEW u \in Units PROVE Range(queue'[u]) = Range(queue[u]) \ {t}
        BY <2>2, <2>5, <2>7, <2>9
      <3>2. ASSUME NEW x, x \in Queued' PROVE x \in Queued \ {t}
        <4>1. PICK u \in Units : x \in Range(queue'[u])
          BY <3>2, QueuedNext, Zenon
        <4> QED BY <3>1, <4>1, QueuedNext
      <3>3. ASSUME NEW x, x \in Queued, x # t PROVE x \in Queued'
        <4>1. PICK u \in Units : x \in Range(queue[u])
          BY <3>3, QueuedNext, Zenon
        <4>2. x \in Range(queue'[u])
          BY <3>1, <3>3, <4>1
        <4> QED BY <4>2, QueuedNext, Zenon
      <3> QED BY <3>2, <3>3
    <2>11. t \in Queued
      BY <2>2, <2>7, TdSets
    <2>12. Pend' = Pend
      <3>1. Todo' = Todo
        BY <1>a DEF Todo
      <3> QED BY <2>4, <2>8, <2>10, <2>11, <3>1 DEF Pend
    <2>13. CountInv'
      BY <1>a, <2>12, CountKeep DEF ReqInv
    <2>14. info[ed] # None /\ info[ed] \in Eps
      BY <1>0, <2>1 DEF OwnInv, EdsInv, ServedInv, TypeInv, MemOK
    <2>15. IsInt(ed) => Len(q) > 1 /\ t # Last(q) /\ Last(Tail(q)) = Last(q) /\ Tail(q) # <<>>
      BY <2>1, <2>2, <2>3, <2>4, <2>6, LastFacts DEF ReqInv, QueuesInv, IntQueueInv
    <2>16. tdUtr[t] # None
      <3>1. CASE IsInt(ed)
        BY <2>2, <2>7, <2>15, <3>1 DEF ReqInv, QueuesInv, IntQueueInv
      <3>2. CASE ~IsInt(ed)
        BY <2>2, <2>4, <2>7, <2>14, <3>2 DEF ReqInv, QueuesInv, SyncQueueInv
      <3> QED BY <3>1, <3>2
    <2>17. OwnerInv'
      <3>1. AllTds' \subseteq AllTds
        BY <1>a, <2>4, <2>8, <2>10, <2>11, TdSets, TdSetsNext
      <3> QED BY <1>a, <2>4, <2>8, <2>16, <3>1 DEF ReqInv, OwnerInv
    <2>18. IntQueueInv'
      <3>1. ASSUME NEW u \in Units, IsInt(u) PROVE
               /\ queue'[u] # <<>> /\ tdUtr[Last(queue'[u])] = None
               /\ \A x \in Range(queue'[u]) \ {Last(queue'[u])} :
                     tdUtr[x] # None /\ utrEp[tdUtr[x]] = info[u]
        <4>1. CASE u = ed
          BY <2>2, <2>5, <2>7, <2>15, <3>1, <4>1 DEF ReqInv, QueuesInv, IntQueueInv
        <4>2. CASE u # ed
          BY <2>5, <3>1, <4>2 DEF ReqInv, QueuesInv, IntQueueInv
        <4> QED BY <4>1, <4>2
      <3> QED BY <1>0, <1>a, <2>4, <3>1 DEF IntQueueInv, IsInt
    <2>19. SyncQueueInv'
      <3>1. \A u \in Units : Range(queue'[u]) \subseteq Range(queue[u])
                             /\ (queue'[u] # <<>> => queue[u] # <<>>)
        BY <2>2, <2>4, <2>5, <2>7
      <3> QED BY <1>a, <3>1 DEF ReqInv, QueuesInv, SyncQueueInv, IsInt
    <2>20. HandInv'
      <3>1. ASSUME mpc = "delay", frames > 0, mu # None PROVE tdUtr[t] # mu
        <4>1. ed \notin Range(removeList)
          <5>1. CASE removeList = <<>>
            BY <5>1, NoDupEmpty
          <5>2. CASE removeList # <<>>
            <6>1. (sfEn /\ sf) \/ ipc = "remove"
              BY <3>1, <5>2, Zenon DEF RemoveInv
            <6> QED BY <2>1, <6>1, Zenon DEF OwnInv, EdsInv, RemovalInv
          <5> QED BY <5>1, <5>2
        <4>2. info[ed] # mep
          BY <2>14, <3>1, <4>1 DEF QuitInv, PipesInv, OnePipe, Quitting
        <4>3. IsInt(ed)
          BY <2>2, <2>4, <2>14, <4>2 DEF ReqInv, QueuesInv, SyncQueueInv
        <4>4. utrEp[tdUtr[t]] = info[ed]
          BY <2>2, <2>7, <2>15, <4>3 DEF ReqInv, QueuesInv, IntQueueInv
        <4> QED BY <3>1, <4>2, <4>4 DEF ReqInv, CallInv
      <3> QED BY <1>a, <2>4, <2>8, <3>1, Zenon DEF ReqInv, HandInv
    <2> QED BY <1>b, <2>13, <2>17, <2>18, <2>19, <2>20 DEF ReqInv, QueuesInv
  <1>3. CASE HcFrame
    <2>1. hcEd = 0 /\ sf' /\ UNCHANGED <<queue, hcEd>>
      BY <1>3, Zenon DEF HcFrame, mem
    <2>2. \/ ~wdh /\ hcDone # <<>> /\ wdh' /\ hccaDone' = hcDone /\ hcDone' = <<>>
          \/ UNCHANGED <<wdh, hccaDone, hcDone>> /\ (~wdh => hcDone = <<>>)
      BY <1>3, Zenon DEF HcFrame
    <2>3. Range(hcDone') \cup Range(hccaDone') = Range(hcDone) \cup Range(hccaDone)
      BY <2>2, NoDupEmpty, Zenon DEF ReqInv, HandInv
    <2>4. Queued' = Queued /\ Todo' = Todo
      BY <1>a, <2>1 DEF Queued, Todo
    <2>5. Pend' = Pend
      BY <2>3, <2>4 DEF Pend
    <2>6. AllTds' = AllTds
      BY <1>a, <2>3, <2>4, TdSets, TdSetsNext
    <2>7. CountInv'
      BY <1>a, <2>5, CountKeep DEF ReqInv
    <2>8. OwnerInv'
      BY <1>a, <2>3, <2>6, OwnerKeep DEF ReqInv
    <2>9. QueuesInv'
      BY <1>0, <1>a, <2>1, IntQueue, QueuesKeep DEF ReqInv
    <2>10. HandInv'
      <3>1. mpc = "delay" => frames' > 0 /\ frames' # 0
        BY <1>3, ConstAssumption DEF HcFrame, TypeInv, MainOK
      <3>2. ~wdh' => hccaDone' = <<>>
        BY <2>2, Zenon DEF ReqInv, HandInv
      <3>3. ASSUME mpc = "delay", mu # None PROVE \A t \in Range(hcDone') : tdUtr[t] # mu
        <4>1. CASE hcDone' = <<>>
          BY <4>1, NoDupEmpty
        <4>2. CASE hcDone' # <<>>
          <5>1. hcDone' = hcDone /\ wdh
            BY <2>2, <4>2, Zenon
          <5>2. frames # 0 /\ frames \in Nat
            BY <3>3, <5>1, Zenon DEF ReqInv, HandInv, TypeInv, MainOK
          <5>3. frames > 0
            BY <5>2
          <5> QED BY <3>3, <5>1, <5>3, Zenon DEF ReqInv, HandInv
        <4> QED BY <4>1, <4>2
      <3> QED BY <1>a, <3>1, <3>2, <3>3, Zenon DEF ReqInv, HandInv
    <2> QED BY <1>b, <2>7, <2>8, <2>9, <2>10 DEF ReqInv
  <1> QED BY <1>1, <1>2, <1>3 DEF Hc

-----------------------------------------------------------------------------
(* ohci_int_xfer.                                                          *)

\* What a submission does to the TDs: x, so far the dummy of the endpoint's ED
\* or a fresh unit, is filled for r, and the fresh unit n becomes the dummy.
Filled(r, e, ed, x, n) ==
    /\ ed \in Units /\ x \in Units /\ n \in Units /\ x # n
    /\ used' \in [Units -> BOOLEAN] /\ \A u \in Units : used[u] => used'[u]
    /\ used'[x] /\ used'[n] /\ ~used[n] /\ n \notin AllTds
    /\ tdUtr' = [tdUtr EXCEPT ![x] = r] /\ tdUtr[x] = None
    /\ info' = [info EXCEPT ![ed] = e] /\ hwPipe' = [hwPipe EXCEPT ![e] = ed]
    /\ \A u \in Units \ {ed} : queue'[u] = queue[u]
    /\ \A k \in Kinds : list[k] \subseteq list'[k]
    /\ \/ /\ info[ed] = e /\ queue'[ed] = Append(queue[ed], n) /\ x = Last(queue[ed])
          /\ x \in Range(queue[ed])
       \/ /\ info[ed] = None /\ queue'[ed] = <<x, n>> /\ x \notin AllTds
          /\ \A u \in Units : info[u] # e

LEMMA IntXferFills ==
    ASSUME TypeInv, RemoveInv, OwnInv, QuitInv, QueuesInv, OwnerInv, NEW r \in Utrs, NEW e \in Eps,
           Kind[e] = "int", e # mep \/ ~Quitting, ~IntXferFails(e), IntXferOk(r, e)
    PROVE  \E ed, x, n \in Units : Filled(r, e, ed, x, n)
  <1>0. 0 \notin Units /\ None \notin Eps
    BY ConstAssumption DEF Units
  <1>a. /\ used \in [Units -> BOOLEAN] /\ info \in [Units -> Eps \cup {None}]
        /\ list \in [Kinds -> SUBSET Units] /\ hwPipe \in [Eps -> Ptr]
        /\ queue \in [Units -> Seq(Ptr)] /\ tdUtr \in [Units -> Utrs \cup {None}]
    BY DEF TypeInv, MemOK, LinksOK
  <1>1. CASE EdOf(e) # {}
    <2>1. PICK ed, x : /\ ed \in EdOf(e) /\ x = queue[ed][Len(queue[ed])]
                       /\ used' = Taken(used, IntNew)
                       /\ queue' = [queue EXCEPT ![ed] = Append(queue[ed], IntNew)]
                       /\ tdUtr' = [tdUtr EXCEPT ![x] = r]
                       /\ hwPipe' = [hwPipe EXCEPT ![e] = ed]
                       /\ UNCHANGED <<info, list>>
      BY <1>1 DEF IntXferOk
    <2>2. ed \in Units /\ info[ed] = e /\ IsInt(ed)
      BY <1>a, <2>1, ConstAssumption DEF EdOf, IsInt
    <2>3. PICK n : n = IntNew
      OBVIOUS
    <2>4. n \in Units /\ ~used[n] /\ n \notin AllTds
      BY <1>a, <2>3, FreshUnit DEF IntNew, IntXferFails
    <2>5. x = Last(queue[ed]) /\ x \in Range(queue[ed]) /\ x \in Units
      BY <2>1, <2>2, IntQueue DEF Last
    <2>6. tdUtr[x] = None
      BY <2>2, <2>5 DEF QueuesInv, IntQueueInv
    <2>7. used[x] /\ x # n
      BY <2>2, <2>4, <2>5, TdSets DEF OwnInv, TdsInv
    <2>8. used' \in [Units -> BOOLEAN] /\ \A u \in Units : used'[u] <=> used[u] \/ u = n
      BY <1>a, <2>1, <2>3 DEF Taken
    <2>9. queue'[ed] = Append(queue[ed], n) /\ \A u \in Units \ {ed} : queue'[u] = queue[u]
      BY <1>a, <2>1, <2>2, <2>3
    <2>10. info' = [info EXCEPT ![ed] = e]
      BY <1>a, <2>1, <2>2
    <2>11. Filled(r, e, ed, x, n)
      BY <2>1, <2>2, <2>4, <2>5, <2>6, <2>7, <2>8, <2>9, <2>10 DEF Filled
    <2> QED BY <2>2, <2>4, <2>5, <2>11
  <1>2. CASE EdOf(e) = {}
    <2>1. PICK n, ed, d : n = IntNew /\ ed = IntNewEd /\ d = IntNewTd
      OBVIOUS
    <2>2. n # 0 /\ ed # 0 /\ d # 0
      BY <1>2, <2>1 DEF IntXferFails
    <2>3. PICK us \in [Units -> BOOLEAN], ut \in [Units -> BOOLEAN] :
             us = Taken(used, n) /\ ut = Taken(us, ed)
      BY <1>a DEF Taken
    <2>4. /\ n = FirstFree(used) /\ ed = FirstFree(us) /\ d = FirstFree(ut)
      BY <2>1, <2>3 DEF IntNew, IntNewEd, IntNewTd
    <2>5. /\ \A u \in Units : us[u] <=> used[u] \/ u = n
          /\ \A u \in Units : ut[u] <=> used[u] \/ u = n \/ u = ed
      BY <1>a, <2>3 DEF Taken
    <2>6. n \in Units /\ ~used[n] /\ n \notin AllTds
      BY <1>a, <2>2, <2>4, FreshUnit
    <2>7. ed \in Units /\ ~us[ed] /\ info[ed] = None
      BY <2>2, <2>4, <2>5, FreshUnit
    <2>8. d \in Units /\ ~ut[d] /\ ~used[d] /\ d \notin AllTds
      BY <2>2, <2>4, <2>5, FreshUnit
    <2>9. d # n
      BY <2>5, <2>6, <2>8
    <2>10. /\ used' = Taken(ut, d) /\ info' = [info EXCEPT ![ed] = e]
           /\ queue' = [queue EXCEPT ![ed] = <<d, n>>]
           /\ tdUtr' = [tdUtr EXCEPT ![d] = r]
           /\ hwPipe' = [hwPipe EXCEPT ![e] = ed]
           /\ list' = [list EXCEPT !["int"] = @ \cup {ed}]
      BY <1>2, <2>1, <2>3 DEF IntXferOk
    <2>11. used' \in [Units -> BOOLEAN] /\ \A u \in Units : used'[u] <=> ut[u] \/ u = d
      BY <2>3, <2>10 DEF Taken
    <2>12. queue'[ed] = <<d, n>> /\ \A u \in Units \ {ed} : queue'[u] = queue[u]
      BY <1>a, <2>7, <2>10
    <2>13. \A k \in Kinds : list[k] \subseteq list'[k]
      BY <1>a, <2>10
    <2>14. tdUtr[d] = None
      BY <2>8 DEF OwnerInv
    <2>15. \A u \in Units : info[u] # e
      <3>1. med = 0 \/ info[med] # e
        BY <1>0 DEF OwnInv, EdsInv, MedInv, KindInv, FreshEd
      <3> QED BY <1>2, <3>1, NoEd
    <2>16. used'[d] /\ used'[n] /\ \A u \in Units : used[u] => used'[u]
      BY <2>5, <2>6, <2>8, <2>11
    <2>17. Filled(r, e, ed, d, n)
      BY <2>6, <2>7, <2>8, <2>9, <2>10, <2>11, <2>12, <2>13, <2>14, <2>15, <2>16 DEF Filled
    <2> QED BY <2>6, <2>7, <2>8, <2>17
  <1> QED BY <1>1, <1>2

\* Which chains the two TDs join, and whose the TDs are afterwards.
LEMMA FilledTds ==
    ASSUME TypeInv, OwnInv, OwnerInv, NEW r \in Utrs, NEW e, NEW ed, NEW x, NEW n,
           Filled(r, e, ed, x, n)
    PROVE  /\ Queued' = Queued \cup {x, n} /\ Range(queue'[ed]) = Range(queue[ed]) \cup {x, n}
           /\ tdUtr'[x] = r /\ tdUtr'[n] = None /\ \A u \in Units \ {x} : tdUtr'[u] = tdUtr[u]
           /\ {x, n} \cap (Range(mtds) \cup Range(hcDone) \cup Range(hccaDone) \cup Range(work)) = {}
  <1>1. \/ /\ queue'[ed] = Append(queue[ed], n) /\ x \in Range(queue[ed])
        \/ /\ queue'[ed] = <<x, n>> /\ x \notin AllTds /\ info[ed] = None
    BY DEF Filled
  <1>2. Range(queue'[ed]) = Range(queue[ed]) \cup {x, n}
    <2>1. CASE queue'[ed] = Append(queue[ed], n) /\ x \in Range(queue[ed])
      <3>1. PICK s \in Seq(Ptr) : s = queue[ed]
        BY DEF TypeInv, MemOK, Filled
      <3>2. NoDup(s) /\ n \in Ptr /\ n \notin Range(s)
        BY <3>1, Apart, TdSets DEF Filled, Ptr, Units
      <3>3. PICK a : a = Append(s, n)
        OBVIOUS
      <3>4. Range(a) = Range(s) \cup {n}
        BY <3>2, <3>3, NoDupAppend
      <3> QED BY <2>1, <3>1, <3>3, <3>4
    <2>2. CASE queue'[ed] = <<x, n>> /\ info[ed] = None
      <3>1. queue[ed] = <<>>
        BY <2>2 DEF Filled, OwnInv, EdsInv, MemInv
      <3> QED BY <2>2, <3>1, LastPair, NoDupEmpty
    <2> QED BY <1>1, <2>1, <2>2
  <1>3. \A u \in Units \ {ed} : queue'[u] = queue[u]
    BY DEF Filled
  <1>4. ed \in Units
    BY DEF Filled
  <1>5. Queued' = Queued \cup {x, n}
    <2>1. ASSUME NEW y, y \in Queued' PROVE y \in Queued \cup {x, n}
      <3>1. PICK u \in Units : y \in Range(queue'[u])
        BY <2>1, QueuedNext, Zenon
      <3> QED BY <1>2, <1>3, <3>1, QueuedNext
    <2>2. ASSUME NEW y, y \in Queued PROVE y \in Queued'
      <3>1. PICK u \in Units : y \in Range(queue[u])
        BY <2>2, QueuedNext, Zenon
      <3>2. y \in Range(queue'[u])
        BY <1>2, <1>3, <3>1
      <3> QED BY <3>2, QueuedNext, Zenon
    <2>3. \A y \in {x, n} : y \in Queued'
      BY <1>2, <1>4, QueuedNext
    <2> QED BY <2>1, <2>2, <2>3
  <1>6. tdUtr'[x] = r /\ \A u \in Units \ {x} : tdUtr'[u] = tdUtr[u]
    BY DEF Filled, TypeInv, MemOK
  <1>7. tdUtr'[n] = None
    BY <1>6 DEF Filled, OwnerInv
  <1>8. {x, n} \cap (Range(mtds) \cup Range(hcDone) \cup Range(hccaDone) \cup Range(work)) = {}
    <2>1. n \notin AllTds
      BY DEF Filled
    <2>2. x \notin AllTds \/ x \in Queued
      BY <1>1, <1>4, TdSets
    <2> QED BY <2>1, <2>2, TdSets, Apart
  <1> QED BY <1>2, <1>5, <1>6, <1>7, <1>8

\* The queues and the owners after a submission for r, which was free or had no
\* other endpoint.
LEMMA ReqFilled ==
    ASSUME TypeInv, RemoveInv, OwnInv, QuitInv, OwnerInv, QueuesInv, SlotInv,
           NEW r \in Utrs, NEW e \in Eps, Kind[e] = "int",
           NEW ed \in Units, NEW x \in Units, NEW n \in Units, Filled(r, e, ed, x, n),
           ~alive[r] \/ utrEp[r] = e, alive'[r], utrEp'[r] = e,
           \A q \in Utrs \ {r} : alive'[q] = alive[q] /\ utrEp'[q] = utrEp[q],
           UNCHANGED <<mtds, hcDone, hccaDone, work, mu, mep, mpc, hcEd>>
    PROVE  OwnerInv' /\ QueuesInv'
  <1>0. 0 \notin Units /\ None \notin Eps /\ None \notin Utrs
    BY ConstAssumption DEF Units
  <1>a. /\ info \in [Units -> Eps \cup {None}] /\ queue \in [Units -> Seq(Ptr)]
        /\ tdUtr \in [Units -> Utrs \cup {None}]
    BY DEF TypeInv, MemOK
  <1>1. /\ Queued' = Queued \cup {x, n} /\ Range(queue'[ed]) = Range(queue[ed]) \cup {x, n}
        /\ tdUtr'[x] = r /\ tdUtr'[n] = None /\ \A u \in Units \ {x} : tdUtr'[u] = tdUtr[u]
        /\ {x, n} \cap (Range(mtds) \cup Range(hcDone) \cup Range(hccaDone) \cup Range(work)) = {}
    BY FilledTds
  <1>2. AllTds' = AllTds \cup {x, n}
    BY <1>1, TdSets, TdSetsNext
  <1>3. AllTds \subseteq Units
    BY DEF OwnInv, TdsInv
  <1>4. ASSUME NEW q \in Utrs, alive[q]
        PROVE  alive'[q] /\ utrEp'[q] = utrEp[q]
    BY <1>4
  <1>5. OwnerInv'
    <2>1. \A u \in Units : ~used'[u] => tdUtr'[u] = None
      BY <1>1 DEF Filled, OwnerInv
    <2>2. \A t \in Range(mtds') : tdUtr'[t] = mu'
      BY <1>1, <1>3, TdSets DEF OwnerInv
    <2>3. \A t \in Range(hcDone') \cup Range(hccaDone') \cup Range(work') : tdUtr'[t] # None
      BY <1>1, <1>3, TdSets DEF OwnerInv
    <2>4. ASSUME NEW t \in AllTds', tdUtr'[t] # None PROVE alive'[tdUtr'[t]]
      <3>1. CASE t = x
        BY <1>1, <3>1
      <3>2. CASE t # x
        <4>1. t \in AllTds /\ tdUtr'[t] = tdUtr[t] /\ tdUtr[t] \in Utrs
          BY <1>a, <1>1, <1>2, <1>3, <2>4, <3>2
        <4> QED BY <1>4, <2>4, <4>1 DEF OwnerInv
      <3> QED BY <3>1, <3>2
    <2> QED BY <2>1, <2>2, <2>3, <2>4 DEF OwnerInv
  <1>6. \A u \in Units : info'[u] = IF u = ed THEN e ELSE info[u]
    BY <1>a DEF Filled
  <1>7. ASSUME NEW u \in Units, u # ed, NEW t \in Range(queue[u])
        PROVE  t # x /\ t \in Units /\ t \in AllTds /\ tdUtr'[t] = tdUtr[t]
    <2>1. t \in AllTds /\ t \in Units
      BY <1>3, <1>7, TdSets
    <2>2. t # x
      <3>1. x \notin AllTds \/ x \in Range(queue[ed])
        BY DEF Filled
      <3>2. Range(queue[u]) \cap Range(queue[ed]) = {}
        BY <1>7, Apart
      <3> QED BY <1>7, <2>1, <3>1, <3>2
    <2> QED BY <1>1, <2>1, <2>2
  <1>8. ASSUME NEW t \in AllTds, tdUtr[t] # None
        PROVE  utrEp'[tdUtr[t]] = utrEp[tdUtr[t]]
    <2>1. tdUtr[t] \in Utrs /\ alive[tdUtr[t]]
      BY <1>a, <1>3, <1>8 DEF OwnerInv
    <2> QED BY <1>4, <2>1
  <1>9. IntQueueInv'
    <2>1. ASSUME NEW u \in Units, info'[u] \in Eps, Kind[info'[u]] = "int", u # ed
          PROVE  /\ queue'[u] # <<>> /\ tdUtr'[Last(queue'[u])] = None
                 /\ \A t \in Range(queue'[u]) \ {Last(queue'[u])} :
                       tdUtr'[t] # None /\ utrEp'[tdUtr'[t]] = info'[u]
                 /\ hcEd' = u => Len(queue'[u]) > 1
      <3>1. info'[u] = info[u] /\ queue'[u] = queue[u] /\ IsInt(u)
        BY <1>6, <2>1 DEF Filled, IsInt
      <3>2. /\ queue[u] # <<>> /\ Last(queue[u]) \in Range(queue[u])
        BY <3>1, IntQueue
      <3>3. /\ tdUtr[Last(queue[u])] = None
            /\ hcEd = u => Len(queue[u]) > 1
            /\ \A t \in Range(queue[u]) \ {Last(queue[u])} :
                  tdUtr[t] # None /\ utrEp[tdUtr[t]] = info[u]
        BY <3>1 DEF QueuesInv, IntQueueInv
      <3>4. \A t \in Range(queue[u]) : t \in AllTds /\ tdUtr'[t] = tdUtr[t]
        BY <1>7, <2>1
      <3>5. \A t \in Range(queue[u]) \ {Last(queue[u])} : tdUtr'[t] # None /\ utrEp'[tdUtr'[t]] = info[u]
        BY <1>8, <3>3, <3>4
      <3>6. PICK l : l = Last(queue[u])
        OBVIOUS
      <3>7. tdUtr'[l] = None
        BY <3>2, <3>3, <3>4, <3>6
      <3>8. PICK s : s = queue[u] /\ s = queue'[u]
        BY <3>1
      <3>9. /\ s # <<>> /\ tdUtr'[Last(s)] = None
            /\ \A t \in Range(s) \ {Last(s)} : tdUtr'[t] # None /\ utrEp'[tdUtr'[t]] = info'[u]
            /\ hcEd' = u => Len(s) > 1
        BY <3>1, <3>2, <3>3, <3>5, <3>6, <3>7, <3>8, Zenon
      <3> QED BY <3>8, <3>9
    <2>2. /\ queue'[ed] # <<>> /\ tdUtr'[Last(queue'[ed])] = None
          /\ \A t \in Range(queue'[ed]) \ {Last(queue'[ed])} :
                tdUtr'[t] # None /\ utrEp'[tdUtr'[t]] = e
          /\ hcEd' = ed => Len(queue'[ed]) > 1
      <3>1. CASE info[ed] = e /\ queue'[ed] = Append(queue[ed], n) /\ x = Last(queue[ed])
        <4>1. IsInt(ed)
          BY <3>1 DEF IsInt
        <4>2. PICK s \in Seq(Ptr) : s = queue[ed]
          BY <1>a
        <4>3. s # <<>> /\ NoDup(s) /\ n \in Ptr /\ n \notin Range(s)
          <5>1. s # <<>> /\ NoDup(s)
            BY <4>1, <4>2, IntQueue
          <5>2. n \in Ptr
            BY DEF Ptr, Units
          <5>3. n \notin Range(s)
            BY <4>2, TdSets DEF Filled
          <5> QED BY <5>1, <5>2, <5>3
        <4>4. PICK a : a = Append(s, n)
          OBVIOUS
        <4>5. Range(a) \subseteq Range(s) \cup {n}
          <5>1. x \in Range(s)
            BY <3>1, <4>2, <4>1, IntQueue
          <5>2. a = queue'[ed]
            BY <3>1, <4>2, <4>4
          <5> QED BY <1>1, <4>2, <5>1, <5>2
        <4>6. Last(a) = n /\ Len(a) = Len(s) + 1 /\ Len(s) \in Nat /\ Len(s) # 0 /\ a # <<>>
          BY <4>3, <4>4, LastFacts
        <4>7. Len(a) > 1
          BY <4>6
        <4>8. ASSUME NEW t \in Range(s), t # x
              PROVE  tdUtr'[t] # None /\ utrEp'[tdUtr'[t]] = e
          <5>1. t \in AllTds /\ t \in Units /\ tdUtr'[t] = tdUtr[t]
            BY <1>1, <1>3, <4>2, <4>8, TdSets
          <5>2. tdUtr[t] # None /\ utrEp[tdUtr[t]] = e
            BY <3>1, <4>1, <4>2, <4>8 DEF QueuesInv, IntQueueInv
          <5> QED BY <1>8, <5>1, <5>2
        <4>9. a = queue'[ed] /\ x = Last(s)
          BY <3>1, <4>2, <4>4
        <4>10. tdUtr'[Last(a)] = None
          BY <1>1, <4>6
        <4>11. \A t \in Range(a) \ {Last(a)} : tdUtr'[t] # None /\ utrEp'[tdUtr'[t]] = e
          <5>1. ASSUME NEW t \in Range(a), t # n PROVE tdUtr'[t] # None /\ utrEp'[tdUtr'[t]] = e
            <6>1. t \in Range(s)
              BY <4>5, <5>1
            <6>2. CASE t = x
              BY <1>0, <1>1, <6>2
            <6> QED BY <4>8, <6>1, <6>2
          <5> QED BY <4>6, <5>1
        <4> QED BY <4>6, <4>7, <4>9, <4>10, <4>11
      <3>2. CASE queue'[ed] = <<x, n>>
        <4>1. Range(queue'[ed]) \ {Last(queue'[ed])} \subseteq {x} /\ Last(queue'[ed]) = n
          BY <3>2, LastPair
        <4>2. Len(queue'[ed]) = 2 /\ queue'[ed] # <<>>
          BY <3>2, LastPair
        <4>3. Len(queue'[ed]) > 1
          BY <4>2
        <4> QED BY <1>0, <1>1, <4>1, <4>2, <4>3
      <3> QED BY <3>1, <3>2 DEF Filled
    <2>3. info'[ed] = e
      BY <1>6
    <2> QED BY <2>1, <2>2, <2>3 DEF IntQueueInv, IsInt
  <1>10. SyncQueueInv'
    <2>1. ASSUME NEW u \in Units, info'[u] \in Eps, Kind[info'[u]] # "int", queue'[u] # <<>>
          PROVE  /\ info'[u] = mep' /\ mpc' \in {"wait", "quit", "arm", "delay"} /\ mu' # None
                 /\ u \in list'[Kind[info'[u]]]
                 /\ \A t \in Range(queue'[u]) : tdUtr'[t] = mu'
      <3>1. u # ed /\ info'[u] = info[u] /\ queue'[u] = queue[u] /\ ~IsInt(u)
        BY <1>6, <2>1 DEF Filled, IsInt
      <3>2. /\ info[u] = mep /\ mpc \in {"wait", "quit", "arm", "delay"} /\ mu # None
            /\ u \in list[Kind[info[u]]]
            /\ \A t \in Range(queue[u]) : tdUtr[t] = mu
        BY <2>1, <3>1 DEF QueuesInv, SyncQueueInv
      <3>3. Kind[info[u]] \in Kinds
        BY <2>1, <3>1, ConstAssumption
      <3> QED BY <1>7, <3>1, <3>2, <3>3 DEF Filled
    <2> QED BY <2>1 DEF SyncQueueInv, IsInt
  <1> QED BY <1>5, <1>9, <1>10 DEF QueuesInv

-----------------------------------------------------------------------------
(* OHCI_IRQHandler.                                                        *)

\* The handler is at work, so the delay of a quit has seen a frame or none is
\* going on.
LEMMA HandIsr ==
    ASSUME HandInv, ipc # "idle" \/ IrqPending, UNCHANGED <<mpc, frames, mu, hcDone>>,
           \A t \in Range(hcDone) : tdUtr'[t] = tdUtr[t],
           ~wdh' => hccaDone' = <<>>, ipc' \notin {"td_done", "td_free"} => work' = <<>>
    PROVE  HandInv'
  <1>1. ~(mpc = "delay" /\ frames = 0)
    BY Zenon DEF HandInv, IrqPending
  <1> QED BY <1>1, Zenon DEF HandInv

\* The handler moves TDs from chain to chain and does nothing to them.
LEMMA ReqStill ==
    ASSUME TypeInv, OwnInv, ReqInv, HandInv', Pend' = Pend, AllTds' \subseteq AllTds,
           UNCHANGED <<used, info, queue, tdUtr, list, hwPipe, alive, utrEp, tdCnt, done>>,
           UNCHANGED <<mpc, mu, mep, mtds, mn, slot, hcEd>>,
           Range(hcDone)' \cup Range(hccaDone)' \cup Range(work)'
              \subseteq Range(hcDone) \cup Range(hccaDone) \cup Range(work)
    PROVE  ReqInv'
  <1>1. CallInv' /\ SlotInv'
    BY CallKeep DEF ReqInv
  <1>2. CountInv'
    BY CountKeep DEF ReqInv
  <1>3. OwnerInv'
    BY OwnerKeep DEF ReqInv
  <1>4. QueuesInv'
    <2>1. \A u \in Units : IsInt(u) => Last(queue[u]) \in Range(queue[u])
      BY IntQueue DEF ReqInv
    <2>2. \A u \in Units : hcEd' = u /\ IsInt(u) => Len(queue[u]) > 1
      BY DEF ReqInv, QueuesInv, IntQueueInv
    <2> QED BY <2>1, <2>2, QueuesKeep DEF ReqInv
  <1> QED BY <1>1, <1>2, <1>3, <1>4 DEF ReqInv

\* The TD at hand is of an allocated request that is not being submitted.
LEMMA AtHand ==
    ASSUME TypeInv, OwnInv, ReqInv, ipc = "td_done", work # <<>>
    PROVE  /\ Head(work) \in Units /\ tdUtr[Head(work)] \in Utrs /\ alive[tdUtr[Head(work)]]
           /\ Head(work) \in Out(tdUtr[Head(work)])
           /\ tdUtr[Head(work)] = mu => ~Submitting /\ mpc # "quit_done"
           /\ tdCnt[tdUtr[Head(work)]] = Cardinality(Out(tdUtr[Head(work)]))
  <1>1. Head(work) \in Units /\ Head(work) \in Range(work)
    BY WorkHead
  <1>2. tdUtr[Head(work)] \in Utrs /\ alive[tdUtr[Head(work)]]
    <2>1. tdUtr[Head(work)] # None /\ Head(work) \in AllTds
      BY <1>1, TdSets DEF ReqInv, OwnerInv
    <2>2. tdUtr[Head(work)] \in Utrs \cup {None}
      BY <1>1 DEF TypeInv, MemOK
    <2> QED BY <2>1, <2>2 DEF ReqInv, OwnerInv
  <1>3. Head(work) \in Out(tdUtr[Head(work)])
    BY <1>1 DEF Out, Pend, Todo
  <1>4. tdUtr[Head(work)] = mu => ~Submitting /\ mpc # "quit_done"
    <2>1. ASSUME tdUtr[Head(work)] = mu, Submitting \/ mpc = "quit_done" PROVE FALSE
      <3>1. mu # None
        BY <1>2, <2>1, ConstAssumption
      <3>2. Out(mu) = {}
        BY <2>1, <3>1 DEF ReqInv, CountInv, StageCntInv
      <3> QED BY <1>3, <2>1, <3>2
    <2> QED BY <2>1
  <1>5. tdCnt[tdUtr[Head(work)]] = Cardinality(Out(tdUtr[Head(work)]))
    BY <1>2, <1>4 DEF ReqInv, CountInv, RequestInv
  <1> QED BY <1>1, <1>2, <1>3, <1>4, <1>5

\* The TD at hand is counted: it is outstanding no more.
LEMMA Counted ==
    ASSUME TypeInv, OwnInv, ipc = "td_done", work # <<>>, ipc' = "td_free",
           UNCHANGED <<hcDone, hccaDone, work>>
    PROVE  /\ Head(work) \notin Queued \cup Range(hcDone) \cup Range(hccaDone) \cup Todo'
           /\ Pend = Queued \cup Range(hcDone) \cup Range(hccaDone) \cup Todo' \cup {Head(work)}
           /\ Pend' = Queued' \cup Range(hcDone) \cup Range(hccaDone) \cup Todo'
  <1>1. PICK w \in Seq(Ptr) : w = work /\ w # <<>>
    BY DEF TypeInv, IsrOK
  <1>2. NoDup(w)
    BY <1>1, Apart
  <1>3. Range(Tail(w)) = Range(w) \ {Head(w)} /\ Head(w) \in Range(w)
    BY <1>1, <1>2, NoDupTail
  <1>4. Todo' = Range(Tail(w)) /\ Todo = Range(w)
    BY <1>1 DEF Todo
  <1>5. Head(w) \notin Queued \cup Range(hcDone) \cup Range(hccaDone)
    BY <1>1, <1>3, Apart
  <1>6. Todo = Todo' \cup {Head(w)} /\ Head(w) \notin Todo'
    BY <1>3, <1>4
  <1>7. Pend' = Queued' \cup Range(hcDone) \cup Range(hccaDone) \cup Todo'
    BY DEF Pend
  <1> QED BY <1>1, <1>5, <1>6, <1>7 DEF Pend

\* td_cnt and the outstanding TDs of one request change together.
LEMMA CountOne ==
    ASSUME CountInv, CallInv, TypeInv, NEW r \in Utrs,
           \A q \in Utrs \ {r} : /\ Out(q)' = Out(q) /\ tdCnt'[q] = tdCnt[q] /\ done'[q] = done[q]
                                 /\ alive'[q] = alive[q] /\ utrEp'[q] = utrEp[q],
           alive'[r], utrEp'[r] \in Eps, tdCnt'[r] = Cardinality(Out(r)'),
           done'[r] /\ Kind[utrEp'[r]] # "int" => tdCnt'[r] = 0,
           r = mu => ~Submitting /\ mpc # "quit_done", UNCHANGED <<mpc, mu, mtds>>
    PROVE  CountInv'
  <1>0. None \notin Utrs /\ mu \in Utrs \cup {None}
    BY ConstAssumption DEF TypeInv, MainOK
  <1>1. RequestInv'
    <2>1. ASSUME NEW q \in Utrs, q # r
          PROVE  /\ alive'[q] => utrEp'[q] \in Eps
                 /\ ~alive'[q] => tdCnt'[q] = 0 /\ ~done'[q]
                 /\ alive'[q] /\ ~(q = mu' /\ Submitting') => tdCnt'[q] = Cardinality(Out(q)')
                 /\ alive'[q] /\ done'[q] /\ Kind[utrEp'[q]] # "int" => tdCnt'[q] = 0
      <3>1. /\ Out(q)' = Out(q) /\ tdCnt'[q] = tdCnt[q] /\ done'[q] = done[q]
            /\ alive'[q] = alive[q] /\ utrEp'[q] = utrEp[q] /\ mu' = mu /\ Submitting' = Submitting
        BY <2>1 DEF Submitting
      <3>2. /\ alive[q] => utrEp[q] \in Eps
            /\ ~alive[q] => tdCnt[q] = 0 /\ ~done[q]
            /\ alive[q] /\ ~(q = mu /\ Submitting) => tdCnt[q] = Cardinality(Out(q))
            /\ alive[q] /\ done[q] /\ Kind[utrEp[q]] # "int" => tdCnt[q] = 0
        BY DEF CountInv, RequestInv
      <3> QED BY <3>1, <3>2, Zenon
    <2> QED BY <2>1 DEF RequestInv
  <1>2. StageCntInv'
    <2>1. CASE mu = r \/ mu \notin Utrs
      <3>1. ~Submitting /\ (mu = None \/ mpc # "quit_done")
        BY <1>0, <2>1 DEF CallInv, Submitting, Quitting
      <3> QED BY <3>1 DEF StageCntInv, Submitting
    <2>2. CASE mu \in Utrs /\ mu # r
      <3>1. PICK m \in Utrs : m = mu /\ m # r
        BY <2>2
      <3>2. Out(m)' = Out(m) /\ tdCnt'[m] = tdCnt[m]
        BY <3>1
      <3>3. Out(mu)' = Out(mu)
        BY <3>1, <3>2 DEF Out
      <3> QED BY <3>1, <3>2, <3>3 DEF CountInv, StageCntInv, Submitting
    <2> QED BY <2>1, <2>2
  <1> QED BY <1>1, <1>2 DEF CountInv

\* A submission for a request none of whose TDs was outstanding, or the last of
\* them was just counted.
LEMMA FilledCount ==
    ASSUME TypeInv, OwnInv, OwnerInv, CountInv, CallInv, NEW r \in Utrs, NEW e \in Eps,
           Kind[e] = "int", NEW ed \in Units, NEW x \in Units, NEW n \in Units,
           Filled(r, e, ed, x, n), Pend' = (Pend \ Out(r)) \cup {x, n},
           \A q \in Utrs \ {r} : /\ tdCnt'[q] = tdCnt[q] /\ done'[q] = done[q]
                                 /\ alive'[q] = alive[q] /\ utrEp'[q] = utrEp[q],
           alive'[r], utrEp'[r] = e, tdCnt'[r] = 1,
           r = mu => ~Submitting /\ mpc # "quit_done", UNCHANGED <<mpc, mu, mtds>>
    PROVE  CountInv'
  <1>0. None \notin Utrs
    BY ConstAssumption
  <1>1. /\ tdUtr'[x] = r /\ tdUtr'[n] = None /\ tdUtr[x] = None /\ tdUtr[n] = None
        /\ \A u \in Units \ {x} : tdUtr'[u] = tdUtr[u]
    <2>1. tdUtr[x] = None /\ tdUtr[n] = None
      BY DEF Filled, OwnerInv
    <2>2. tdUtr'[x] = r /\ tdUtr'[n] = None /\ \A u \in Units \ {x} : tdUtr'[u] = tdUtr[u]
      BY FilledTds
    <2> QED BY <2>1, <2>2
  <1>2. Pend \subseteq Units
    BY PendFacts
  <1>3. \A q : \A t : t \in Out(q) <=> t \in Pend /\ tdUtr[t] = q
    BY DEF Out
  <1>4. \A q : \A t : t \in Out(q)' <=> t \in Pend' /\ tdUtr'[t] = q
    BY DEF Out
  <1>5. Out(r)' = {x}
    <2>1. ASSUME NEW t \in Out(r)' PROVE t = x
      <3>1. t \in Pend' /\ tdUtr'[t] = r
        BY <1>4
      <3>2. t # n
        BY <1>0, <1>1, <3>1
      <3>3. t = x \/ (t \in Pend /\ t \notin Out(r))
        BY <3>1, <3>2
      <3> QED BY <1>1, <1>2, <1>3, <3>1, <3>3
    <2>2. x \in Out(r)'
      BY <1>1, <1>4
    <2> QED BY <2>1, <2>2
  <1>6. ASSUME NEW q \in Utrs, q # r PROVE Out(q)' = Out(q)
    <2>1. ASSUME NEW t \in Out(q)' PROVE t \in Out(q)
      <3>1. t \in Pend' /\ tdUtr'[t] = q
        BY <1>4
      <3>2. t # n /\ t # x
        BY <1>0, <1>1, <1>6, <3>1
      <3>3. t \in Pend /\ t \in Units
        BY <1>2, <3>1, <3>2
      <3> QED BY <1>1, <1>3, <3>1, <3>2, <3>3
    <2>2. ASSUME NEW t \in Out(q) PROVE t \in Out(q)'
      <3>1. t \in Pend /\ tdUtr[t] = q /\ t \in Units
        BY <1>2, <1>3
      <3>2. t # x /\ t \notin Out(r)
        BY <1>0, <1>1, <1>3, <1>6, <3>1
      <3>3. t \in Pend' /\ tdUtr'[t] = q
        BY <1>1, <3>1, <3>2
      <3> QED BY <1>4, <3>3
    <2> QED BY <2>1, <2>2
  <1>7. tdCnt'[r] = Cardinality(Out(r)')
    BY <1>5, FS_Singleton
  <1> QED BY <1>6, <1>7, CountOne

\* The part of td_done before the callback, for every TD whose callback does not
\* submit again.
LEMMA ReqTdDone ==
    ASSUME TypeInv, OwnInv, ReqInv, TdDone
    PROVE  ReqInv'
  <1>1. PICK td, r : /\ td = Head(work) /\ r = tdUtr[td] /\ TdDoneCount(td, r)
                     /\ ipc = "td_done" /\ work # <<>> /\ ipc' = "td_free"
    BY DEF TdDone
  <1>2. /\ UNCHANGED <<used, info, queue, tdUtr, list, hwPipe, alive, utrEp>>
        /\ UNCHANGED <<hcDone, hccaDone, wdh, work, hcEd, mpc, mu, mep, mtds, mn, slot, frames>>
    BY DEF TdDone, mem, links, hc, main
  <1>3. /\ td \in Units /\ r \in Utrs /\ alive[r] /\ td \in Out(r) /\ tdCnt[r] = Cardinality(Out(r))
        /\ r = mu => ~Submitting /\ mpc # "quit_done"
    BY <1>1, AtHand
  <1>4. /\ tdCnt' = [tdCnt EXCEPT ![r] = @ - 1]
        /\ done' = [done EXCEPT ![r] = @ \/ tdCnt[r] = 1]
    BY <1>1 DEF TdDoneCount
  <1>5. Queued' = Queued /\ AllTds' = AllTds
    <2>1. Queued' = Queued
      BY <1>2 DEF Queued
    <2> QED BY <1>2, <2>1, TdSets, TdSetsNext
  <1>6. Pend' = Pend \ {td}
    BY <1>1, <1>2, <1>5, Counted
  <1>7. \A q : Out(q)' = Out(q) \ {td}
    BY <1>2, <1>6 DEF Out
  <1>8. \A q \in Utrs \ {r} : Out(q)' = Out(q)
    BY <1>1, <1>7 DEF Out
  <1>9. tdCnt'[r] = Cardinality(Out(r)')
    <2>1. IsFiniteSet(Out(r))
      BY PendFacts
    <2>2. Cardinality(Out(r) \ {td}) = Cardinality(Out(r)) - 1
      BY <1>3, <2>1, FS_RemoveElement
    <2>3. tdCnt'[r] = tdCnt[r] - 1
      BY <1>3, <1>4 DEF TypeInv, UtrsOK
    <2> QED BY <1>3, <1>7, <2>2, <2>3
  <1>10. tdCnt[r] # 0
    <2>1. IsFiniteSet(Out(r))
      BY PendFacts
    <2> QED BY <1>3, <2>1, FS_EmptySet
  <1>11. done'[r] /\ Kind[utrEp'[r]] # "int" => tdCnt'[r] = 0
    <2>1. ASSUME done'[r], Kind[utrEp[r]] # "int" PROVE tdCnt'[r] = 0
      <3>1. ~done[r]
        BY <1>3, <1>10, <2>1 DEF ReqInv, CountInv, RequestInv
      <3>2. tdCnt[r] = 1
        BY <1>3, <1>4, <2>1, <3>1 DEF TypeInv, UtrsOK
      <3> QED BY <1>3, <1>4, <3>2 DEF TypeInv, UtrsOK
    <2> QED BY <1>2, <2>1
  <1>12. \A q \in Utrs \ {r} : tdCnt'[q] = tdCnt[q] /\ done'[q] = done[q]
    BY <1>4 DEF TypeInv, UtrsOK
  <1>13. CountInv'
    <2>1. utrEp'[r] \in Eps /\ alive'[r]
      BY <1>2, <1>3 DEF ReqInv, CountInv, RequestInv
    <2> QED BY <1>2, <1>3, <1>8, <1>9, <1>11, <1>12, <2>1, CountOne DEF ReqInv
  <1>14. CallInv' /\ SlotInv'
    <2>1. Submitting => done'[mu] = done[mu]
      <3>1. Submitting => mu \in Utrs \ {r}
        BY <1>3, ConstAssumption DEF ReqInv, CallInv, Submitting, Quitting, TypeInv, MainOK
      <3> QED BY <1>12, <3>1
    <2> QED BY <1>2, <2>1, CallKeep DEF ReqInv
  <1>15. HandInv'
    <2>1. ~wdh' => hccaDone' = <<>>
      BY <1>2 DEF ReqInv, HandInv
    <2> QED BY <1>1, <1>2, <2>1, HandIsr DEF ReqInv
  <1>16. OwnerInv'
    BY <1>2, <1>5, OwnerKeep DEF ReqInv
  <1>17. QueuesInv'
    <2>1. \A u \in Units : IsInt(u) => Last(queue[u]) \in Range(queue[u])
      BY IntQueue DEF ReqInv
    <2>2. \A u \in Units : hcEd' = u /\ IsInt(u) => Len(queue[u]) > 1
      BY <1>2 DEF ReqInv, QueuesInv, IntQueueInv
    <2> QED BY <1>2, <2>1, <2>2, QueuesKeep DEF ReqInv
  <1> QED BY <1>13, <1>14, <1>15, <1>16, <1>17 DEF ReqInv

\* td_done whose callback submits the same request again.
LEMMA ReqResubmit ==
    ASSUME NoRace, TypeInv, RemoveInv, OwnInv, QuitInv, ReqInv, ~Dropped, TdDoneResubmit
    PROVE  ReqInv'
  <1>0. None \notin Utrs /\ None \notin Eps
    BY ConstAssumption
  <1>1. PICK td, r, e : /\ td = Head(work) /\ r = tdUtr[td] /\ e = utrEp[r] /\ CallsResubmit(td, r)
                        /\ done' = [done EXCEPT ![r] = TRUE]
                        /\ ipc = "td_done" /\ work # <<>> /\ ipc' = "td_free"
                        /\ ~IntXferFails(e) /\ IntXferOk(r, e)
                        /\ tdCnt' = [tdCnt EXCEPT ![r] = 1] /\ UNCHANGED alive
    BY DEF TdDoneResubmit, Dropped
  <1>2. UNCHANGED <<utrEp, hcDone, hccaDone, wdh, work, hcEd, mpc, mu, mep, mtds, mn, slot, frames>>
    BY DEF TdDoneResubmit, hc, main
  <1>3. /\ td \in Units /\ r \in Utrs /\ alive[r] /\ td \in Out(r) /\ tdCnt[r] = Cardinality(Out(r))
        /\ r = mu => ~Submitting /\ mpc # "quit_done"
    BY <1>1, AtHand
  <1>4. tdCnt[r] = 1 /\ e \in Eps /\ Kind[e] = "int" /\ (e # mep \/ ~Quitting)
    BY <1>1, ResubmitQuit DEF CallsResubmit
  <1>5. Out(r) = {td}
    <2>1. IsFiniteSet(Out(r))
      BY PendFacts
    <2>2. PICK y : Out(r) = {y}
      BY <1>3, <1>4, <2>1, FS_Singleton
    <2> QED BY <1>3, <2>2
  <1>6. PICK ed \in Units, x \in Units, n \in Units : Filled(r, e, ed, x, n)
    BY <1>1, <1>3, <1>4, IntXferFills DEF ReqInv
  <1>7. Queued' = Queued \cup {x, n}
    BY <1>3, <1>6, FilledTds DEF ReqInv
  <1>8. Pend' = (Pend \ Out(r)) \cup {x, n}
    BY <1>1, <1>2, <1>5, <1>7, Counted
  <1>9. \A q \in Utrs \ {r} : /\ tdCnt'[q] = tdCnt[q] /\ done'[q] = done[q]
                              /\ alive'[q] = alive[q] /\ utrEp'[q] = utrEp[q]
    BY <1>1, <1>2 DEF TypeInv, UtrsOK
  <1>10. alive'[r] /\ utrEp'[r] = e /\ tdCnt'[r] = 1
    BY <1>1, <1>2, <1>3 DEF TypeInv, UtrsOK
  <1>11. CountInv'
    BY <1>2, <1>3, <1>4, <1>6, <1>8, <1>9, <1>10, FilledCount DEF ReqInv
  <1>12. OwnerInv' /\ QueuesInv'
    BY <1>1, <1>2, <1>3, <1>4, <1>6, <1>9, <1>10, ReqFilled DEF ReqInv
  <1>13. CallInv' /\ SlotInv'
    <2>1. Submitting => done'[mu] = done[mu]
      <3>1. Submitting => mu \in Utrs \ {r}
        BY <1>3, ConstAssumption DEF ReqInv, CallInv, Submitting, Quitting, TypeInv, MainOK
      <3> QED BY <1>9, <3>1
    <2>2. \A f \in Eps : hwPipe[f] # 0 => hwPipe'[f] # 0
      BY <1>6, ConstAssumption DEF Filled, TypeInv, LinksOK, Units
    <2> QED BY <1>1, <1>2, <2>1, <2>2, CallKeep DEF ReqInv
  <1>14. HandInv'
    <2>1. ~wdh' => hccaDone' = <<>>
      BY <1>2 DEF ReqInv, HandInv
    <2>2. \A t \in Range(hcDone) : tdUtr'[t] = tdUtr[t]
      <3>1. /\ {x, n} \cap Range(hcDone) = {}
            /\ \A u \in Units \ {x} : tdUtr'[u] = tdUtr[u]
        BY <1>3, <1>6, FilledTds DEF ReqInv
      <3>2. Range(hcDone) \subseteq Units
        BY TdSets DEF OwnInv, TdsInv
      <3> QED BY <3>1, <3>2
    <2> QED BY <1>1, <1>2, <2>1, <2>2, HandIsr DEF ReqInv
  <1> QED BY <1>11, <1>12, <1>13, <1>14 DEF ReqInv

\* How many places of a chain hold a TD of a set.
LEMMA NoDupCount ==
    ASSUME NEW S, NEW s \in Seq(S), NoDup(s), NEW P \in SUBSET Range(s)
    PROVE  IsFiniteSet(P) /\ Cardinality({i \in DOMAIN s : s[i] \in P}) = Cardinality(P)
  <1> DEFINE I == {i \in DOMAIN s : s[i] \in P}
             f == [i \in I |-> s[i]]
  <1>1. DOMAIN s = 1..Len(s) /\ Len(s) \in Nat
    OBVIOUS
  <1>2. IsFiniteSet(I)
    <2>1. IsFiniteSet(1..Len(s)) /\ I \in SUBSET (1..Len(s))
      BY <1>1, FS_Interval
    <2> QED BY <2>1, FS_Subset
  <1>3. f \in Bijection(I, P)
    <2>1. f \in [I -> P]
      OBVIOUS
    <2>2. IsInjective(f)
      BY DEF IsInjective, NoDup
    <2>3. \A t \in P : \E i \in I : f[i] = t
      BY DEF Range
    <2> QED BY <2>1, <2>2, <2>3 DEF Bijection, Injection, Surjection, IsInjective
  <1>4. ExistsBijection(I, P)
    BY <1>3 DEF ExistsBijection
  <1> QED BY <1>2, <1>4, FS_Bijection

\* A request loses the TDs under the ED that is removed, and no more than it has.
LEMMA CountRemoved ==
    ASSUME TypeInv, OwnInv, ReqInv, mpc = "delay", NEW ed \in Units, NEW r \in Utrs
    PROVE  /\ CntAfterRemove(ed, r) = Cardinality(Out(r) \ Range(queue[ed]))
           /\ tdCnt[r] = Cardinality(Out(r))
           /\ queue[ed] = <<>> => CntAfterRemove(ed, r) = tdCnt[r]
  <1> DEFINE P == Out(r) \cap Range(queue[ed])
  <1>1. PICK s \in Seq(Ptr) : s = queue[ed]
    BY DEF TypeInv, MemOK
  <1>2. NoDup(s) /\ Range(s) \subseteq Pend
    BY <1>1, Apart, TdSets DEF Pend
  <1>3. TdsUnder(ed, r) = {i \in DOMAIN s : s[i] \in P}
    <2>1. \A i \in DOMAIN s : s[i] \in Range(s)
      BY DEF Range
    <2>2. \A i \in DOMAIN s : tdUtr[s[i]] = r <=> s[i] \in P
      BY <1>1, <1>2, <2>1 DEF Out
    <2> QED BY <1>1, <2>2 DEF TdsUnder
  <1>4. IsFiniteSet(P) /\ Cardinality(TdsUnder(ed, r)) = Cardinality(P)
    <2>1. P \in SUBSET Range(s)
      BY <1>1
    <2> HIDE DEF P
    <2> QED BY <1>2, <1>3, <2>1, NoDupCount
  <1>5. IsFiniteSet(Out(r))
    BY PendFacts
  <1>6. Cardinality(Out(r) \ Range(queue[ed])) = Cardinality(Out(r)) - Cardinality(P)
    BY <1>5, FS_Difference
  <1>7. tdCnt[r] = Cardinality(Out(r))
    <2>1. CASE alive[r]
      BY <2>1 DEF ReqInv, CountInv, RequestInv, Submitting
    <2>2. CASE ~alive[r]
      <3>1. Out(r) = {} /\ tdCnt[r] = 0
        BY <2>2, PendFacts DEF ReqInv, CountInv, RequestInv
      <3> QED BY <3>1, FS_EmptySet
    <2> QED BY <2>1, <2>2 DEF TypeInv, UtrsOK
  <1>8. /\ Cardinality(P) \in Nat /\ Cardinality(Out(r)) \in Nat
        /\ Cardinality(P) =< Cardinality(Out(r))
    BY <1>4, <1>5, FS_Subset, FS_CardinalityType
  <1>9. CntAfterRemove(ed, r) = Cardinality(Out(r)) - Cardinality(P)
    BY <1>4, <1>7, <1>8 DEF CntAfterRemove
  <1>10. queue[ed] = <<>> => P = {}
    BY NoDupEmpty
  <1>11. queue[ed] = <<>> => CntAfterRemove(ed, r) = tdCnt[r]
    <2>1. queue[ed] = <<>> => Cardinality(P) = 0
      BY <1>10, FS_EmptySet
    <2> QED BY <1>7, <1>8, <1>9, <2>1
  <1> QED BY <1>6, <1>7, <1>9, <1>11

\* Units go back to the pool: the TDs under the EDs among them are gone, and no
\* other TD is.
LEMMA FreedTds ==
    ASSUME TypeInv, OwnerInv, NEW S, FreeUnits(S), NEW Gone,
           \A u \in Units : u \in S => Range(queue[u]) \subseteq Gone,
           \A u \in Units : u \notin S => Range(queue[u]) \cap Gone = {}
    PROVE  /\ Queued' = Queued \ Gone
           /\ \A u \in Units : ~used'[u] => tdUtr'[u] = None
           /\ \A u \in Units : u \notin S => tdUtr'[u] = tdUtr[u]
           /\ \A u \in Units : info'[u] \in Eps =>
                 u \notin S /\ info'[u] = info[u] /\ queue'[u] = queue[u]
  <1>0. None \notin Eps
    BY ConstAssumption
  <1>1. /\ \A u \in Units : queue'[u] = IF u \in S THEN <<>> ELSE queue[u]
        /\ \A u \in Units : tdUtr'[u] = IF u \in S THEN None ELSE tdUtr[u]
        /\ \A u \in Units : info'[u] = IF u \in S THEN None ELSE info[u]
        /\ \A u \in Units : used'[u] <=> used[u] /\ u \notin S
    BY DEF FreeUnits
  <1>2. ASSUME NEW t, t \in Queued \ Gone PROVE t \in Queued'
    <2>1. PICK u \in Units : t \in Range(queue[u])
      BY <1>2, QueuedNext, Zenon
    <2>2. u \notin S
      BY <1>2, <2>1
    <2>3. queue'[u] = queue[u]
      BY <1>1, <2>2
    <2> QED BY <2>1, <2>3, QueuedNext
  <1>3. ASSUME NEW t, t \in Queued' PROVE t \in Queued \ Gone
    <2>1. PICK u \in Units : t \in Range(queue'[u])
      BY <1>3, QueuedNext, Zenon
    <2>2. u \notin S
      BY <1>1, <2>1, NoDupEmpty
    <2>3. t \in Range(queue[u]) /\ t \notin Gone
      BY <1>1, <2>1, <2>2
    <2> QED BY <2>3, QueuedNext
  <1>4. \A u \in Units : ~used'[u] => tdUtr'[u] = None
    BY <1>1 DEF OwnerInv
  <1>5. \A u \in Units : info'[u] \in Eps => u \notin S /\ info'[u] = info[u] /\ queue'[u] = queue[u]
    BY <1>0, <1>1
  <1> QED BY <1>1, <1>2, <1>3, <1>4, <1>5

\* One turn of remove_ed's loop, whichever branch it takes: an ED that is on no
\* list has no TDs.
LEMMA RemovedEd ==
    ASSUME TypeInv, RemoveInv, OwnInv, QuitInv, ReqInv, RemoveEd
    PROVE  \E ed \in Units :
              /\ info[ed] = mep /\ mpc = "delay"
              /\ FreeUnits({ed} \cup Range(queue[ed]))
              /\ \A k \in Kinds : \A u \in Units \ {ed} : u \in list[k] => u \in list'[k]
              /\ \A r \in Utrs : /\ tdCnt'[r] = Cardinality(Out(r) \ Range(queue[ed]))
                                 /\ done'[r] => done[r] \/ (tdCnt[r] # 0 /\ tdCnt'[r] = 0)
  <1>0. 0 \notin Units
    BY DEF Units
  <1>1. PICK ed \in Units : ed = Head(removeList) /\ ed \in Range(removeList)
    <2>1. removeList \in Seq(Units) /\ removeList # <<>>
      BY DEF RemoveEd, TypeInv, LinksOK
    <2> QED BY <2>1 DEF Range
  <1>2. mpc = "delay" /\ ipc = "remove"
    BY Zenon DEF RemoveEd, RemoveInv
  <1>3. info[ed] = mep /\ mep \in Eps
    BY <1>1, <1>2 DEF OwnInv, EdsInv, RemovalInv, TypeInv
  <1>4. CASE ed \in list[Kind[info[ed]]]
    <2>1. /\ list' = Unlinked(ed) /\ FreeUnits(UnitsUnder(ed))
          /\ tdCnt' = [r \in Utrs |-> CntAfterRemove(ed, r)]
          /\ done' = [r \in Utrs |-> done[r] \/ (tdCnt[r] > 0 /\ CntAfterRemove(ed, r) = 0)]
      BY <1>1, <1>4 DEF RemoveEd
    <2>2. \A k \in Kinds : \A u \in Units \ {ed} : u \in list[k] => u \in list'[k]
      BY <2>1 DEF Unlinked, TypeInv, LinksOK
    <2>3. UnitsUnder(ed) = {ed} \cup Range(queue[ed])
      BY DEF UnitsUnder
    <2>4. ASSUME NEW r \in Utrs
          PROVE  /\ tdCnt'[r] = Cardinality(Out(r) \ Range(queue[ed]))
                 /\ done'[r] => done[r] \/ (tdCnt[r] # 0 /\ tdCnt'[r] = 0)
      <3>1. CntAfterRemove(ed, r) = Cardinality(Out(r) \ Range(queue[ed]))
        BY <1>2, CountRemoved
      <3>2. tdCnt[r] > 0 => tdCnt[r] # 0
        OBVIOUS
      <3> QED BY <2>1, <3>1, <3>2, Zenon
    <2> QED BY <1>2, <1>3, <2>1, <2>2, <2>3, <2>4
  <1>5. CASE ed \notin list[Kind[info[ed]]]
    <2>1. FreeUnits({ed}) /\ UNCHANGED <<list, tdCnt, done>>
      BY <1>1, <1>5 DEF RemoveEd
    <2>2. queue[ed] = <<>>
      <3>1. med = 0
        BY <1>2, Zenon DEF OwnInv, EdsInv, MedInv
      <3>2. Kind[info[ed]] = "ctrl"
        BY <1>0, <1>3, <1>5, <3>1 DEF QuitInv, LinkedInv
      <3> QED BY <1>3, <1>5, <3>2 DEF ReqInv, QueuesInv, SyncQueueInv, IsInt
    <2>3. Range(queue[ed]) = {}
      BY <2>2, NoDupEmpty
    <2>4. \A r \in Utrs : tdCnt[r] = Cardinality(Out(r))
      BY <1>2, CountRemoved
    <2>5. \A r \in Utrs : Out(r) \ Range(queue[ed]) = Out(r)
      BY <2>3
    <2>6. {ed} \cup Range(queue[ed]) = {ed}
      BY <2>3
    <2> QED BY <1>2, <1>3, <2>1, <2>4, <2>5, <2>6
  <1> QED BY <1>4, <1>5

\* remove_ed.
LEMMA ReqRemove ==
    ASSUME TypeInv, RemoveInv, OwnInv, QuitInv, ReqInv, RemoveEd
    PROVE  ReqInv'
  <1>0. None \notin Eps /\ None \notin Utrs
    BY ConstAssumption
  <1>a. PICK ed \in Units : \E S :
           /\ info[ed] = mep /\ mpc = "delay" /\ S = {ed} \cup Range(queue[ed])
           /\ FreeUnits(S)
           /\ \A k \in Kinds : \A u \in Units \ {ed} : u \in list[k] => u \in list'[k]
           /\ \A r \in Utrs : /\ tdCnt'[r] = Cardinality(Out(r) \ Range(queue[ed]))
                              /\ done'[r] => done[r] \/ (tdCnt[r] # 0 /\ tdCnt'[r] = 0)
    BY RemovedEd
  <1>1. PICK S :
           /\ info[ed] = mep /\ mpc = "delay" /\ S = {ed} \cup Range(queue[ed])
           /\ FreeUnits(S)
           /\ \A k \in Kinds : \A u \in Units \ {ed} : u \in list[k] => u \in list'[k]
           /\ \A r \in Utrs : /\ tdCnt'[r] = Cardinality(Out(r) \ Range(queue[ed]))
                              /\ done'[r] => done[r] \/ (tdCnt[r] # 0 /\ tdCnt'[r] = 0)
    BY <1>a
  <1>2. /\ UNCHANGED <<hwPipe, alive, utrEp, hcDone, hccaDone, wdh, work, hcEd, ipc>>
        /\ UNCHANGED <<mpc, mu, mep, mtds, mn, slot, frames>>
        /\ ipc = "remove"
    BY DEF RemoveEd, hc, isr, main
  <1>3. info[ed] \in Eps /\ ed \notin AllTds
    BY <1>0, <1>1 DEF TypeInv, OwnInv, TdsInv
  <1>4. \A u \in Units : u \notin S => Range(queue[u]) \cap Range(queue[ed]) = {}
    BY <1>1, Apart
  <1>5. \A u \in Units : u \in S => Range(queue[u]) \subseteq Range(queue[ed])
    <2>1. ASSUME NEW u \in Units, u \in S, u # ed PROVE queue[u] = <<>>
      <3>1. u \in AllTds
        BY <1>1, <2>1, TdSets
      <3> QED BY <3>1 DEF OwnInv, TdsInv, EdsInv, MemInv
    <2> QED BY <2>1, NoDupEmpty
  <1>6. /\ Queued' = Queued \ Range(queue[ed])
        /\ \A u \in Units : ~used'[u] => tdUtr'[u] = None
        /\ \A u \in Units : u \notin S => tdUtr'[u] = tdUtr[u]
        /\ \A u \in Units : info'[u] \in Eps => u \notin S /\ info'[u] = info[u] /\ queue'[u] = queue[u]
    <2>1. PICK G : G = Range(queue[ed])
      OBVIOUS
    <2>2. /\ OwnerInv /\ FreeUnits(S)
          /\ \A u \in Units : u \in S => Range(queue[u]) \subseteq G
          /\ \A u \in Units : u \notin S => Range(queue[u]) \cap G = {}
      BY <1>1, <1>4, <1>5, <2>1 DEF ReqInv
    <2>3. /\ Queued' = Queued \ G
          /\ \A u \in Units : ~used'[u] => tdUtr'[u] = None
          /\ \A u \in Units : u \notin S => tdUtr'[u] = tdUtr[u]
          /\ \A u \in Units : info'[u] \in Eps =>
                u \notin S /\ info'[u] = info[u] /\ queue'[u] = queue[u]
      BY <2>2, FreedTds, Zenon
    <2> QED BY <2>1, <2>3
  <1>7. Range(queue[ed]) \cap (Range(mtds) \cup Range(hcDone) \cup Range(hccaDone) \cup Range(work)) = {}
    BY Apart, TdSets
  <1>8. AllTds' = AllTds \ Range(queue[ed])
    BY <1>2, <1>6, <1>7, TdSets, TdSetsNext
  <1>9. \A t \in AllTds' : t \in AllTds /\ t \in Units /\ tdUtr'[t] = tdUtr[t]
    <2>1. \A t \in AllTds' : t \in AllTds /\ t \in Units /\ t \notin S
      BY <1>1, <1>3, <1>8 DEF OwnInv, TdsInv
    <2> QED BY <1>6, <2>1
  <1>10. Todo' = Todo /\ Todo = {}
    BY <1>2, NoDupEmpty DEF Todo, ReqInv, HandInv
  <1>11. Pend' = Pend \ Range(queue[ed])
    BY <1>2, <1>6, <1>7, <1>10 DEF Pend
  <1>12. \A r : Out(r)' = Out(r) \ Range(queue[ed])
    <2>1. Pend' \subseteq AllTds'
      BY <1>2, <1>10, TdSetsNext DEF Pend
    <2> QED BY <1>9, <1>11, <2>1 DEF Out
  <1>13. CountInv'
    <2>1. ASSUME NEW r \in Utrs
          PROVE  /\ alive'[r] => utrEp'[r] \in Eps
                 /\ ~alive'[r] => tdCnt'[r] = 0 /\ ~done'[r]
                 /\ tdCnt'[r] = Cardinality(Out(r)')
                 /\ alive'[r] /\ done'[r] /\ Kind[utrEp'[r]] # "int" => tdCnt'[r] = 0
      <3>1. tdCnt'[r] = Cardinality(Out(r) \ Range(queue[ed]))
        BY <1>1
      <3>2. done'[r] => done[r] \/ (tdCnt[r] # 0 /\ tdCnt'[r] = 0)
        BY <1>1
      <3>3. /\ alive[r] => utrEp[r] \in Eps
            /\ ~alive[r] => tdCnt[r] = 0 /\ ~done[r]
            /\ alive[r] /\ done[r] /\ Kind[utrEp[r]] # "int" => tdCnt[r] = 0
        BY DEF ReqInv, CountInv, RequestInv
      <3>4. tdCnt[r] = 0 => tdCnt'[r] = 0
        <4>1. tdCnt[r] = 0 => Out(r) = {}
          BY <1>1, CountRemoved, PendFacts, FS_EmptySet
        <4>2. Out(r) = {} => Out(r) \ Range(queue[ed]) = {}
          OBVIOUS
        <4> QED BY <3>1, <4>1, <4>2, FS_EmptySet
      <3>5. Out(r)' = Out(r) \ Range(queue[ed])
        BY <1>12
      <3> QED BY <1>2, <3>1, <3>2, <3>3, <3>4, <3>5, Zenon
    <2>2. RequestInv'
      BY <2>1 DEF RequestInv
    <2>3. StageCntInv'
      BY <1>1, <1>2 DEF StageCntInv, Submitting
    <2> QED BY <2>2, <2>3 DEF CountInv
  <1>14. OwnerInv'
    <2>1. \A t \in Range(mtds') : tdUtr'[t] = mu'
      BY <1>1, <1>2, NoDupEmpty DEF ReqInv, CallInv
    <2>2. Range(hcDone') \cup Range(hccaDone') \cup Range(work') \subseteq AllTds'
      BY TdSetsNext
    <2>3. \A t \in Range(hcDone') \cup Range(hccaDone') \cup Range(work') : tdUtr'[t] # None
      BY <1>2, <1>9, <2>2 DEF ReqInv, OwnerInv
    <2>4. \A t \in AllTds' : tdUtr'[t] # None => alive'[tdUtr'[t]]
      BY <1>2, <1>9 DEF ReqInv, OwnerInv
    <2> QED BY <1>6, <2>1, <2>3, <2>4 DEF OwnerInv
  <1>15. CallInv' /\ SlotInv'
    <2>1. ~Submitting
      BY <1>1 DEF Submitting
    <2> QED BY <1>2, <2>1, CallKeep DEF ReqInv
  <1>16. HandInv'
    <2>1. \A t \in Range(hcDone) : tdUtr'[t] = tdUtr[t]
      BY <1>2, <1>9, TdSetsNext
    <2>2. ~wdh' => hccaDone' = <<>>
      BY <1>2 DEF ReqInv, HandInv
    <2>3. work' = <<>>
      BY <1>2 DEF ReqInv, HandInv
    <2> QED BY <1>2, <2>1, <2>2, <2>3, HandIsr DEF ReqInv
  <1>17. \A u \in Units : info'[u] \in Eps =>
            /\ u # ed /\ info'[u] = info[u] /\ queue'[u] = queue[u]
            /\ \A t \in Range(queue[u]) : tdUtr'[t] = tdUtr[t]
    <2>1. ASSUME NEW u \in Units, info'[u] \in Eps
          PROVE  /\ u # ed /\ info'[u] = info[u] /\ queue'[u] = queue[u]
                 /\ Range(queue[u]) \subseteq AllTds'
      <3>1. u \notin S /\ info'[u] = info[u] /\ queue'[u] = queue[u]
        BY <1>6, <2>1
      <3>2. Range(queue'[u]) \subseteq Queued'
        BY QueuedNext
      <3> QED BY <1>1, <3>1, <3>2, TdSetsNext
    <2> QED BY <1>9, <2>1
  <1>18. IntQueueInv'
    <2>1. ASSUME NEW u \in Units, info'[u] \in Eps, Kind[info'[u]] = "int"
          PROVE  /\ queue'[u] # <<>> /\ tdUtr'[Last(queue'[u])] = None
                 /\ \A t \in Range(queue'[u]) \ {Last(queue'[u])} :
                       tdUtr'[t] # None /\ utrEp'[tdUtr'[t]] = info'[u]
                 /\ (hcEd' = u => Len(queue'[u]) > 1)
      <3>1. PICK s : s = queue[u] /\ s = queue'[u]
        BY <1>17, <2>1
      <3>2. info'[u] = info[u] /\ IsInt(u) /\ \A t \in Range(s) : tdUtr'[t] = tdUtr[t]
        BY <1>17, <2>1, <3>1 DEF IsInt
      <3>3. Last(s) \in Range(s)
        BY <3>1, <3>2, IntQueue DEF ReqInv
      <3>4. /\ s # <<>> /\ tdUtr[Last(s)] = None
            /\ \A t \in Range(s) \ {Last(s)} : tdUtr[t] # None /\ utrEp[tdUtr[t]] = info[u]
            /\ (hcEd = u => Len(s) > 1)
        BY <3>1, <3>2 DEF ReqInv, QueuesInv, IntQueueInv
      <3>5. /\ s # <<>> /\ tdUtr'[Last(s)] = None
            /\ \A t \in Range(s) \ {Last(s)} : tdUtr'[t] # None /\ utrEp'[tdUtr'[t]] = info'[u]
            /\ (hcEd' = u => Len(s) > 1)
        BY <1>2, <3>2, <3>3, <3>4
      <3> QED BY <3>1, <3>5
    <2> QED BY <2>1 DEF IntQueueInv, IsInt
  <1>19. SyncQueueInv'
    <2>1. ASSUME NEW u \in Units, info'[u] \in Eps, Kind[info'[u]] # "int", queue'[u] # <<>>
          PROVE  /\ info'[u] = mep' /\ mpc' \in {"wait", "quit", "arm", "delay"} /\ mu' # None
                 /\ u \in list'[Kind[info'[u]]]
                 /\ \A t \in Range(queue'[u]) : tdUtr'[t] = mu'
      <3>1. /\ u # ed /\ info'[u] = info[u] /\ queue'[u] = queue[u] /\ ~IsInt(u)
            /\ \A t \in Range(queue[u]) : tdUtr'[t] = tdUtr[t]
        BY <1>17, <2>1 DEF IsInt
      <3>2. /\ info[u] = mep /\ mpc \in {"wait", "quit", "arm", "delay"} /\ mu # None
            /\ u \in list[Kind[info[u]]]
            /\ \A t \in Range(queue[u]) : tdUtr[t] = mu
        BY <2>1, <3>1 DEF ReqInv, QueuesInv, SyncQueueInv
      <3>3. Kind[info[u]] \in Kinds
        BY <2>1, <3>1, ConstAssumption
      <3> QED BY <1>1, <1>2, <3>1, <3>2, <3>3
    <2> QED BY <2>1 DEF SyncQueueInv, IsInt
  <1> QED BY <1>13, <1>14, <1>15, <1>16, <1>18, <1>19 DEF ReqInv, QueuesInv

\* The TD that was counted goes back to the pool.
LEMMA ReqTdFree ==
    ASSUME TypeInv, OwnInv, ReqInv, TdFree
    PROVE  ReqInv'
  <1>1. /\ UNCHANGED <<list, hwPipe, alive, utrEp, tdCnt, done, hcDone, hccaDone, wdh, hcEd>>
        /\ UNCHANGED <<mpc, mu, mep, mtds, mn, slot, frames>>
        /\ ipc = "td_free" /\ ipc' = "td_done" /\ work' = Tail(work)
    BY Zenon DEF TdFree, links, utrs, hc, main
  <1>a. PICK w \in Seq(Ptr) : w = work /\ w # <<>>
    BY <1>1 DEF TypeInv, IsrOK
  <1>2. PICK td : w = work /\ w # <<>> /\ td = Head(w)
    BY <1>a
  <1>3. FreeUnits({td})
    BY <1>2 DEF TdFree, Reclaimed
  <1>4. td \in Units /\ info[td] = None /\ queue[td] = <<>>
    BY <1>2, WorkHead DEF OwnInv, EdsInv, MemInv
  <1>5. NoDup(w)
    BY <1>2, Apart
  <1>6. Range(Tail(w)) = Range(w) \ {td} /\ td \in Range(w)
    BY <1>2, <1>5, NoDupTail
  <1>7. info' = info /\ queue' = queue
    <2>1. info \in [Units -> Eps \cup {None}] /\ queue \in [Units -> Seq(Ptr)]
      BY DEF TypeInv, MemOK
    <2>2. info' = [u \in Units |-> IF u \in {td} THEN None ELSE info[u]]
      BY <1>3 DEF FreeUnits
    <2>3. queue' = [u \in Units |-> IF u \in {td} THEN <<>> ELSE queue[u]]
      BY <1>3 DEF FreeUnits
    <2>4. info' = info
      BY <1>4, <2>1, <2>2
    <2>5. queue' = queue
      BY <1>4, <2>1, <2>3
    <2> QED BY <2>4, <2>5
  <1>8. /\ \A u \in Units : u # td => tdUtr'[u] = tdUtr[u]
        /\ tdUtr'[td] = None /\ \A u \in Units : used'[u] <=> used[u] /\ u # td
    BY <1>3, <1>4 DEF FreeUnits
  <1>9. Queued' = Queued
    BY <1>7 DEF Queued
  <1>10. AllTds' = AllTds \ {td}
    <2>1. td \notin Range(mtds) \cup Range(hcDone) \cup Range(hccaDone) \cup Queued
      BY <1>2, <1>6, Apart
    <2> QED BY <1>1, <1>2, <1>6, <1>9, <2>1, TdSets, TdSetsNext
  <1>11. \A t \in AllTds' : t \in AllTds /\ tdUtr'[t] = tdUtr[t]
    BY <1>8, <1>10 DEF OwnInv, TdsInv
  <1>12. Pend' = Pend /\ \A t \in Pend : tdUtr'[t] = tdUtr[t]
    <2>1. Todo = Range(Tail(w)) /\ Todo' = Range(Tail(w))
      BY <1>1, <1>2 DEF Todo
    <2>2. Pend' = Pend
      BY <1>1, <1>9, <2>1 DEF Pend
    <2>3. Todo' = Range(work')
      BY <1>1 DEF Todo
    <2>4. Pend' \subseteq AllTds'
      BY <2>3, TdSetsNext DEF Pend
    <2> QED BY <1>11, <2>2, <2>4
  <1>13. CountInv'
    BY <1>1, <1>12, CountKeep DEF ReqInv
  <1>14. CallInv' /\ SlotInv'
    BY <1>1, CallKeep DEF ReqInv
  <1>15. HandInv'
    <2>1. \A t \in Range(hcDone) : tdUtr'[t] = tdUtr[t]
      BY <1>1, <1>11, TdSetsNext
    <2>2. ~wdh' => hccaDone' = <<>>
      BY <1>1 DEF ReqInv, HandInv
    <2> QED BY <1>1, <2>1, <2>2, HandIsr DEF ReqInv
  <1>16. OwnerInv'
    <2>1. \A u \in Units : ~used'[u] => tdUtr'[u] = None
      BY <1>8 DEF ReqInv, OwnerInv
    <2>2. Range(mtds') \cup Range(hcDone') \cup Range(hccaDone') \cup Range(work') \subseteq AllTds'
      BY TdSetsNext
    <2>3. \A t \in Range(mtds') : tdUtr'[t] = mu'
      BY <1>1, <1>11, <2>2 DEF ReqInv, OwnerInv
    <2>4. \A t \in Range(hcDone') \cup Range(hccaDone') \cup Range(work') : tdUtr'[t] # None
      <3>1. Range(work') \subseteq Range(work)
        BY <1>1, <1>2, <1>6
      <3>2. ASSUME NEW t \in Range(hcDone') \cup Range(hccaDone') \cup Range(work')
            PROVE  tdUtr'[t] = tdUtr[t] /\ t \in Range(hcDone) \cup Range(hccaDone) \cup Range(work)
        BY <1>1, <1>11, <2>2, <3>1
      <3> QED BY <3>2 DEF ReqInv, OwnerInv
    <2>5. \A t \in AllTds' : tdUtr'[t] # None => alive'[tdUtr'[t]]
      BY <1>1, <1>11 DEF ReqInv, OwnerInv
    <2> QED BY <2>1, <2>3, <2>4, <2>5 DEF OwnerInv
  <1>17. QueuesInv'
    <2>1. \A u \in Units : IsInt(u) => Last(queue[u]) \in Range(queue[u])
      BY IntQueue DEF ReqInv
    <2>2. \A u \in Units : hcEd' = u /\ IsInt(u) => Len(queue[u]) > 1
      BY <1>1 DEF ReqInv, QueuesInv, IntQueueInv
    <2>3. \A u \in Units : \A t \in Range(queue[u]) : tdUtr'[t] = tdUtr[t]
      BY <1>12, TdSets DEF Pend
    <2> QED BY <1>1, <1>7, <2>1, <2>2, <2>3, QueuesKeep DEF ReqInv
  <1> QED BY <1>13, <1>14, <1>15, <1>16, <1>17 DEF ReqInv

\* Every step of the handler.
LEMMA ReqIsr ==
    ASSUME NoRace, TypeInv, RemoveInv, OwnInv, QuitInv, ReqInv, ~Dropped, Isr
    PROVE  ReqInv'
  <1>1. CASE IsrEnter \/ RemoveDone \/ IsrExit
    <2>1. /\ UNCHANGED <<used, info, queue, tdUtr, list, hwPipe, alive, utrEp, tdCnt, done>>
          /\ UNCHANGED <<mpc, mu, mep, mtds, mn, slot, frames, hcEd, hcDone, hccaDone, wdh, work>>
          /\ ipc # "td_free" /\ ipc' # "td_free" /\ (ipc # "idle" \/ IrqPending)
          /\ ipc' \notin {"td_done", "td_free"}
      BY <1>1, Zenon DEF IsrEnter, RemoveDone, IsrExit, mem, links, utrs, hc, main
    <2>2. work' = <<>>
      <3>1. CASE IsrExit
        BY <3>1 DEF IsrExit
      <3>2. CASE ~IsrExit
        BY <1>1, <2>1, <3>2 DEF ReqInv, HandInv, IsrEnter, RemoveDone
      <3> QED BY <3>1, <3>2
    <2>3. Queued' = Queued /\ Todo' = Todo
      BY <2>1 DEF Queued, Todo
    <2>4. Pend' = Pend
      BY <2>1, <2>3 DEF Pend
    <2>5. AllTds' = AllTds
      BY <2>1, <2>3, TdSets, TdSetsNext
    <2>6. HandInv'
      <3>1. ~wdh' => hccaDone' = <<>>
        BY <2>1 DEF ReqInv, HandInv
      <3> QED BY <2>1, <2>2, <3>1, HandIsr DEF ReqInv
    <2> QED BY <2>1, <2>4, <2>5, <2>6, ReqStill
  <1>2. CASE TakeDoneList
    <2>1. /\ UNCHANGED <<used, info, queue, tdUtr, list, hwPipe, alive, utrEp, tdCnt, done>>
          /\ UNCHANGED <<mpc, mu, mep, mtds, mn, slot, frames, hcEd, hcDone>>
          /\ ipc = "wdh" /\ ipc' = "td_done" /\ hccaDone' = <<>>
      BY <1>2, Zenon DEF TakeDoneList, mem, links, utrs, main
    <2>2. PICK s \in Seq(Ptr) : s = hccaDone /\ work' = Reverse(s)
      BY <1>2 DEF TakeDoneList, TypeInv, HcOK
    <2>3. NoDup(s)
      BY <2>2, Apart
    <2>4. Range(work') = Range(hccaDone)
      BY <2>2, <2>3, NoDupReverse
    <2>5. work = <<>> /\ Range(work) = {} /\ Range(hccaDone') = {}
      BY <2>1, NoDupEmpty DEF ReqInv, HandInv
    <2>6. Todo = {} /\ Todo' = Range(hccaDone)
      BY <2>1, <2>4, <2>5 DEF Todo
    <2>7. Queued' = Queued
      BY <2>1 DEF Queued
    <2>8. Pend' = Pend
      BY <2>1, <2>5, <2>6, <2>7 DEF Pend
    <2>9. AllTds' = AllTds
      BY <2>1, <2>4, <2>5, <2>7, TdSets, TdSetsNext
    <2>10. HandInv'
      BY <2>1, HandIsr DEF ReqInv
    <2>11. Range(hcDone)' \cup Range(hccaDone)' \cup Range(work)'
              \subseteq Range(hcDone) \cup Range(hccaDone) \cup Range(work)
      BY <2>1, <2>4, <2>5
    <2> QED BY <2>1, <2>8, <2>9, <2>10, <2>11, ReqStill
  <1> QED BY <1>1, <1>2, ReqRemove, ReqTdDone, ReqResubmit, ReqTdFree DEF Isr

-----------------------------------------------------------------------------
(* The thread.                                                             *)

LEMMA HandMain ==
    ASSUME HandInv, UNCHANGED <<wdh, hccaDone, ipc, work>>, mpc' # "delay"
    PROVE  HandInv'
  BY Zenon DEF HandInv

\* While the thread submits, no control or bulk ED has TDs.
LEMMA NoneQueued ==
    ASSUME QueuesInv, mpc \notin {"wait", "quit", "arm", "delay"}, NEW u \in Units,
           info[u] \in Eps, ~IsInt(u)
    PROVE  queue[u] = <<>>
  BY DEF QueuesInv, SyncQueueInv

\* With the handler idle every TD is on a queue, done and not yet taken, or the
\* thread's own.
LEMMA IdleTds ==
    ASSUME ReqInv, ipc = "idle"
    PROVE  work = <<>> /\ Todo = {} /\ AllTds = Range(mtds) \cup Pend
  <1>1. work = <<>> /\ Todo = {} /\ Range(work) = {}
    BY NoDupEmpty DEF ReqInv, HandInv, Todo
  <1> QED BY <1>1, TdSets DEF Pend

\* The queues after a step of the thread that touches neither them nor the TDs on
\* them.
LEMMA QueuesMain ==
    ASSUME TypeInv, OwnInv, ReqInv, UNCHANGED <<queue, hcEd>>, NEW e, e \in Eps => Kind[e] # "int",
           \A u \in Units : info'[u] = info[u] \/ (queue[u] = <<>> /\ info'[u] = e),
           \A t \in Pend : /\ tdUtr'[t] = tdUtr[t]
                           /\ tdUtr[t] # None => utrEp'[tdUtr[t]] = utrEp[tdUtr[t]],
           \A u \in Units : info[u] \in Eps /\ ~IsInt(u) => queue[u] = <<>>
    PROVE  QueuesInv'
  <1>1. \A u \in Units : Range(queue[u]) \subseteq Pend
    BY TdSets DEF Pend
  <1>2. ASSUME NEW u \in Units, info'[u] \in Eps, Kind[info'[u]] = "int"
        PROVE  /\ queue'[u] # <<>> /\ tdUtr'[Last(queue'[u])] = None
               /\ \A t \in Range(queue'[u]) \ {Last(queue'[u])} :
                     tdUtr'[t] # None /\ utrEp'[tdUtr'[t]] = info'[u]
               /\ (hcEd' = u => Len(queue'[u]) > 1)
    <2>1. info'[u] = info[u] /\ IsInt(u)
      BY <1>2 DEF IsInt
    <2>2. PICK s : s = queue[u] /\ s = queue'[u]
      OBVIOUS
    <2>3. Last(s) \in Range(s) /\ Range(s) \subseteq Pend
      BY <1>1, <2>1, <2>2, IntQueue DEF ReqInv
    <2>4. /\ s # <<>> /\ tdUtr[Last(s)] = None
          /\ \A t \in Range(s) \ {Last(s)} : tdUtr[t] # None /\ utrEp[tdUtr[t]] = info[u]
          /\ (hcEd = u => Len(s) > 1)
      BY <2>1, <2>2 DEF ReqInv, QueuesInv, IntQueueInv
    <2>5. /\ s # <<>> /\ tdUtr'[Last(s)] = None
          /\ \A t \in Range(s) \ {Last(s)} : tdUtr'[t] # None /\ utrEp'[tdUtr'[t]] = info'[u]
          /\ (hcEd' = u => Len(s) > 1)
      BY <2>1, <2>3, <2>4
    <2> QED BY <2>2, <2>5
  <1>3. \A u \in Units : info'[u] \in Eps /\ Kind[info'[u]] # "int" => queue'[u] = <<>>
    BY DEF IsInt
  <1> QED BY <1>2, <1>3 DEF QueuesInv, IntQueueInv, SyncQueueInv, IsInt

\* usbh_ctrl_xfer and msc_bulk_transfer take a request.
LEMMA ReqBegin ==
    ASSUME TypeInv, OwnInv, ReqInv, XferBegin
    PROVE  ReqInv'
  <1>0. None \notin Utrs /\ None \notin Eps
    BY ConstAssumption
  <1>1. PICK e \in Eps, r \in Utrs :
           /\ ~alive[r] /\ Kind[e] # "int"
           /\ alive' = [alive EXCEPT ![r] = TRUE] /\ utrEp' = [utrEp EXCEPT ![r] = e]
           /\ mu' = r /\ mep' = e /\ mpc' \in {"ctrl_td", "bulk_ed"}
    BY DEF XferBegin
  <1>2. /\ UNCHANGED <<used, info, queue, tdUtr, list, hwPipe, tdCnt, done, mtds>>
        /\ UNCHANGED <<slot, frames, hcEd, hcDone, hccaDone, wdh, ipc, work>>
        /\ mpc = "idle" /\ ipc = "idle"
    BY Zenon DEF XferBegin, MainTurn, SyncUnch, mem, links, hc, isr
  <1>3. mu = None /\ mtds = <<>> /\ Range(mtds) = {}
    BY <1>2, NoDupEmpty DEF ReqInv, CallInv
  <1>4. /\ alive'[r] /\ utrEp'[r] = e /\ tdCnt[r] = 0 /\ ~done[r] /\ Out(r) = {}
        /\ \A q \in Utrs \ {r} : alive'[q] = alive[q] /\ utrEp'[q] = utrEp[q]
    BY <1>1, PendFacts DEF TypeInv, UtrsOK, ReqInv, CountInv, RequestInv
  <1>5. Queued' = Queued /\ Pend' = Pend /\ AllTds' = AllTds
    <2>1. Queued' = Queued /\ Todo' = Todo
      BY <1>2 DEF Queued, Todo
    <2> QED BY <1>2, <2>1, TdSets, TdSetsNext DEF Pend
  <1>6. \A q : Out(q)' = Out(q)
    BY <1>2, <1>5, OutSame
  <1>7. CallInv'
    BY <1>0, <1>1, <1>2, <1>3, <1>4 DEF CallInv, Submitting, Quitting
  <1>8. SlotInv'
    <2>1. \A f \in Eps : slot[f] # None => slot[f] \in Utrs \ {r}
      BY <1>1 DEF TypeInv, MainOK, ReqInv, SlotInv
    <2> QED BY <1>2, <1>4, <2>1 DEF ReqInv, SlotInv
  <1>9. HandInv'
    BY <1>1, <1>2, HandMain DEF ReqInv
  <1>10. \A t \in AllTds : tdUtr[t] # None => tdUtr[t] \in Utrs \ {r} /\ alive[tdUtr[t]]
    <2>1. AllTds \subseteq Units
      BY DEF OwnInv, TdsInv
    <2> QED BY <1>1, <2>1 DEF TypeInv, MemOK, ReqInv, OwnerInv
  <1>11. OwnerInv'
    <2>1. \A t \in AllTds' : tdUtr'[t] # None => alive'[tdUtr'[t]]
      BY <1>2, <1>4, <1>5, <1>10
    <2> QED BY <1>2, <1>3, <2>1 DEF ReqInv, OwnerInv
  <1>12. QueuesInv'
    <2>1. \A t \in Pend : tdUtr'[t] = tdUtr[t] /\ (tdUtr[t] # None => utrEp'[tdUtr[t]] = utrEp[tdUtr[t]])
      BY <1>2, <1>4, <1>10, PendFacts
    <2>2. \A u \in Units : info[u] \in Eps /\ ~IsInt(u) => queue[u] = <<>>
      BY <1>2, NoneQueued DEF ReqInv
    <2> QED BY <1>1, <1>2, <2>1, <2>2, QueuesMain
  <1>13. CountInv'
    <2>1. RequestInv'
      <3>1. ASSUME NEW q \in Utrs
            PROVE  /\ alive'[q] => utrEp'[q] \in Eps
                   /\ ~alive'[q] => tdCnt'[q] = 0 /\ ~done'[q]
                   /\ alive'[q] /\ ~(q = mu' /\ Submitting') => tdCnt'[q] = Cardinality(Out(q)')
                   /\ alive'[q] /\ done'[q] /\ Kind[utrEp'[q]] # "int" => tdCnt'[q] = 0
        <4>1. CASE q = r
          BY <1>1, <1>2, <1>4, <4>1 DEF Submitting
        <4>2. CASE q # r
          <5>1. /\ alive[q] => utrEp[q] \in Eps
                /\ ~alive[q] => tdCnt[q] = 0 /\ ~done[q]
                /\ alive[q] => tdCnt[q] = Cardinality(Out(q))
                /\ alive[q] /\ done[q] /\ Kind[utrEp[q]] # "int" => tdCnt[q] = 0
            BY <1>0, <1>3, <4>2 DEF ReqInv, CountInv, RequestInv
          <5>2. Out(q)' = Out(q)
            BY <1>6
          <5> QED BY <1>2, <1>4, <4>2, <5>1, <5>2
        <4> QED BY <4>1, <4>2
      <3> QED BY <3>1 DEF RequestInv
    <2>2. Out(mu)' = {}
      <3>1. Out(r)' = {}
        BY <1>4, <1>6
      <3> QED BY <1>1, <3>1 DEF Out
    <2>3. StageCntInv'
      BY <1>1, <1>2, <1>4, <2>2 DEF StageCntInv
    <2> QED BY <2>1, <2>3 DEF CountInv
  <1> QED BY <1>7, <1>8, <1>9, <1>11, <1>12, <1>13 DEF ReqInv

\* ohci_ctrl_xfer and ohci_bulk_xfer take a TD for the request.
LEMMA ReqTake ==
    ASSUME TypeInv, OwnInv, ReqInv, ~Exhausted, CtrlAllocTd \/ BulkAllocTd
    PROVE  ReqInv'
  <1>0. None \notin Utrs /\ None \notin Eps
    BY ConstAssumption
  <1>1. PICK u : u = FirstFree(used)
    OBVIOUS
  <1>2. /\ UNCHANGED <<info, queue, list, hwPipe, alive, utrEp, done, mpc, mu, mep, mn>>
        /\ UNCHANGED <<slot, frames, hcEd, hcDone, hccaDone, wdh, ipc, work>>
        /\ mpc \in {"ctrl_td", "bulk_td"} /\ ipc = "idle"
        /\ mtds' = Append(mtds, u)
    BY <1>1 DEF CtrlAllocTd, BulkAllocTd, MainTurn, SyncUnch, links, utrs, hc, isr
  <1>3. u # 0
    BY <1>1 DEF CtrlAllocTd, BulkAllocTd, Exhausted
  <1>4. u \in Units /\ ~used[u] /\ u \notin AllTds
    BY <1>1, <1>3, FreshUnit DEF TypeInv, MemOK
  <1>5. used' = Taken(used, u) /\ tdUtr' = [tdUtr EXCEPT ![u] = mu]
    BY <1>1, <1>3 DEF CtrlAllocTd, BulkAllocTd
  <1>6. /\ \A v \in Units : used'[v] <=> used[v] \/ v = u
        /\ tdUtr'[u] = mu /\ \A v \in Units \ {u} : tdUtr'[v] = tdUtr[v]
    BY <1>4, <1>5 DEF Taken, TypeInv, MemOK
  <1>7. mu \in Utrs /\ alive[mu] /\ ~done[mu] /\ Submitting
    BY <1>2 DEF ReqInv, CallInv, Submitting, Quitting, TypeInv, MainOK
  <1>8. Len(mtds') = Len(mtds) + 1 /\ Range(mtds') = Range(mtds) \cup {u}
    <2>1. PICK s \in Seq(Ptr) : s = mtds
      BY DEF TypeInv, MainOK
    <2>2. NoDup(s) /\ u \in Ptr /\ u \notin Range(s)
      BY <1>4, <2>1, Apart, TdSets DEF Ptr, Units
    <2>3. PICK a : a = Append(s, u)
      OBVIOUS
    <2>4. Range(a) = Range(s) \cup {u}
      BY <2>2, <2>3, NoDupAppend
    <2>5. Len(a) = Len(s) + 1
      BY <2>2, <2>3
    <2> QED BY <1>2, <2>1, <2>3, <2>4, <2>5
  <1>9. Queued' = Queued /\ Pend' = Pend /\ AllTds' = AllTds \cup {u}
    <2>1. Queued' = Queued /\ Todo' = Todo
      BY <1>2 DEF Queued, Todo
    <2> QED BY <1>2, <1>8, <2>1, TdSets, TdSetsNext DEF Pend
  <1>10. \A t \in AllTds : t \in Units /\ t # u /\ tdUtr'[t] = tdUtr[t]
    BY <1>4, <1>6 DEF OwnInv, TdsInv
  <1>11. \A t \in Pend : tdUtr'[t] = tdUtr[t]
    BY <1>10, PendFacts
  <1>12. \A q : Out(q)' = Out(q)
    BY <1>9, <1>11, OutSame
  <1>13. \A q \in Utrs \ {mu} : tdCnt'[q] = tdCnt[q]
    BY <1>7 DEF CtrlAllocTd, BulkAllocTd, utrs, TypeInv, UtrsOK
  <1>14. mpc = "bulk_td" => tdCnt'[mu] = tdCnt[mu] + 1
    BY <1>7 DEF CtrlAllocTd, BulkAllocTd, TypeInv, UtrsOK
  <1>15. CallInv' /\ SlotInv'
    <2>1. CallInv'
      BY <1>2, <1>7 DEF ReqInv, CallInv, Submitting, Quitting
    <2> QED BY <1>2, <2>1 DEF ReqInv, SlotInv
  <1>16. HandInv'
    BY <1>2, HandMain DEF ReqInv
  <1>17. OwnerInv'
    <2>1. \A v \in Units : ~used'[v] => tdUtr'[v] = None
      BY <1>6 DEF ReqInv, OwnerInv
    <2>2. \A t \in Range(mtds') : tdUtr'[t] = mu'
      BY <1>2, <1>6, <1>8, <1>10, TdSets DEF ReqInv, OwnerInv
    <2>3. \A t \in Range(hcDone') \cup Range(hccaDone') \cup Range(work') : tdUtr'[t] # None
      BY <1>2, <1>10, TdSets DEF ReqInv, OwnerInv
    <2>4. \A t \in AllTds' : tdUtr'[t] # None => alive'[tdUtr'[t]]
      BY <1>2, <1>6, <1>7, <1>9, <1>10 DEF ReqInv, OwnerInv
    <2> QED BY <2>1, <2>2, <2>3, <2>4 DEF OwnerInv
  <1>18. QueuesInv'
    <2>1. \A v \in Units : info[v] \in Eps /\ ~IsInt(v) => queue[v] = <<>>
      BY <1>2, NoneQueued DEF ReqInv
    <2>2. mep \in Eps /\ Kind[mep] # "int"
      BY <1>2 DEF TypeInv, OwnInv, EdsInv, KindInv
    <2> QED BY <1>2, <1>11, <2>1, <2>2, QueuesMain
  <1>19. CountInv'
    <2>1. ASSUME NEW q \in Utrs
          PROVE  /\ alive'[q] => utrEp'[q] \in Eps
                 /\ ~alive'[q] => tdCnt'[q] = 0 /\ ~done'[q]
                 /\ alive'[q] /\ ~(q = mu' /\ Submitting') => tdCnt'[q] = Cardinality(Out(q)')
                 /\ alive'[q] /\ done'[q] /\ Kind[utrEp'[q]] # "int" => tdCnt'[q] = 0
      <3>1. Out(q)' = Out(q) /\ Submitting' /\ mu' = mu
        BY <1>2, <1>7, <1>12 DEF Submitting
      <3>2. /\ alive[q] => utrEp[q] \in Eps
            /\ ~alive[q] => tdCnt[q] = 0 /\ ~done[q]
            /\ alive[q] /\ q # mu => tdCnt[q] = Cardinality(Out(q))
            /\ alive[q] /\ done[q] /\ Kind[utrEp[q]] # "int" => tdCnt[q] = 0
        BY DEF ReqInv, CountInv, RequestInv
      <3> QED BY <1>2, <1>7, <1>13, <3>1, <3>2
    <2>2. RequestInv'
      BY <2>1 DEF RequestInv
    <2>3. Out(mu)' = {}
      <3>1. PICK m : m = mu
        OBVIOUS
      <3>2. Out(m)' = {}
        BY <1>7, <1>12, <3>1 DEF ReqInv, CountInv, StageCntInv
      <3> QED BY <1>2, <3>1, <3>2 DEF Out
    <2>4. StageCntInv'
      BY <1>2, <1>8, <1>14, <2>3 DEF ReqInv, CountInv, StageCntInv
    <2> QED BY <2>2, <2>4 DEF CountInv
  <1> QED BY <1>15, <1>16, <1>17, <1>18, <1>19 DEF ReqInv

\* The call gets its ED: the pipe's, one it finds, or a fresh one.
LEMMA ReqStage ==
    ASSUME TypeInv, OwnInv, ReqInv, ipc = "idle",
           \/ mpc = "ctrl_td" /\ mpc' = "ctrl_link" /\ Len(mtds) = mn
           \/ mpc = "bulk_ed" /\ mpc' = "bulk_td",
           UNCHANGED <<queue, tdUtr, list, alive, utrEp, tdCnt, done, mu, mep, mtds, mn>>,
           UNCHANGED <<slot, hcEd, hcDone, hccaDone, wdh, ipc, work>>,
           \A u \in Units : used[u] => used'[u],
           \A u \in Units : info'[u] = info[u] \/ (queue[u] = <<>> /\ info'[u] = mep),
           \A e \in Eps : hwPipe[e] # 0 => hwPipe'[e] # 0
    PROVE  ReqInv'
  <1>1. mep \in Eps /\ Kind[mep] # "int"
    BY DEF TypeInv, OwnInv, EdsInv, KindInv
  <1>2. Queued' = Queued /\ Pend' = Pend /\ AllTds' = AllTds
    <2>1. Queued' = Queued /\ Todo' = Todo
      BY DEF Queued, Todo
    <2> QED BY <2>1, TdSets, TdSetsNext DEF Pend
  <1>3. \A q : Out(q)' = Out(q)
    BY <1>2, OutSame
  <1>4. Submitting /\ Submitting' /\ ~Quitting'
    BY DEF Submitting, Quitting
  <1>5. CallInv' /\ SlotInv'
    <2>1. CallInv'
      BY <1>1, <1>4 DEF ReqInv, CallInv, Submitting, Quitting
    <2> QED BY <2>1 DEF ReqInv, SlotInv
  <1>6. HandInv'
    BY HandMain DEF ReqInv
  <1>7. OwnerInv'
    BY <1>2 DEF ReqInv, OwnerInv
  <1>8. QueuesInv'
    <2>1. \A v \in Units : info[v] \in Eps /\ ~IsInt(v) => queue[v] = <<>>
      BY NoneQueued DEF ReqInv
    <2> QED BY <1>1, <2>1, QueuesMain
  <1>9. CountInv'
    <2>1. RequestInv'
      BY <1>3, <1>4 DEF ReqInv, CountInv, RequestInv
    <2>2. Out(mu)' = Out(mu)
      BY <1>2 DEF Out
    <2>3. mpc = "bulk_ed" => Len(mtds) = 0
      BY DEF ReqInv, CallInv
    <2>4. StageCntInv'
      BY <1>4, <2>2, <2>3 DEF ReqInv, CountInv, StageCntInv, Submitting
    <2> QED BY <2>1, <2>4 DEF CountInv
  <1> QED BY <1>5, <1>6, <1>7, <1>8, <1>9 DEF ReqInv

\* The client returns, and its request with none of its TDs outstanding goes
\* back; the TDs the thread still had went first.
LEMMA ReqReturn ==
    ASSUME TypeInv, OwnInv, ReqInv, Return({mu}), ipc = "idle", mpc # "idle",
           mu # None => Out(mu) = {},
           UNCHANGED <<info, queue, list, slot, hcEd, hcDone, hccaDone, wdh, ipc, work>>,
           hwPipe' = hwPipe \/ hwPipe' = [hwPipe EXCEPT ![mep] = 0],
           \A u \in Units : ~used'[u] => tdUtr'[u] = None,
           \A u \in Units \ Range(mtds) : tdUtr'[u] = tdUtr[u]
    PROVE  ReqInv'
  <1>0. None \notin Utrs /\ None \notin Eps
    BY ConstAssumption
  <1>1. /\ mpc' = "idle" /\ mu' = None /\ mep' = None /\ mtds' = <<>>
        /\ \A q \in Utrs : /\ q # mu => /\ alive'[q] = alive[q] /\ utrEp'[q] = utrEp[q]
                                        /\ tdCnt'[q] = tdCnt[q] /\ done'[q] = done[q]
                           /\ q = mu => ~alive'[q] /\ tdCnt'[q] = 0 /\ ~done'[q]
    BY DEF Return, TypeInv, UtrsOK
  <1>2. mep \in Eps /\ mu \in Utrs \cup {None}
    BY DEF TypeInv, MainOK
  <1>3. \A f \in Eps : slot[f] # None => f # mep /\ slot[f] # mu /\ slot[f] \in Utrs
    <2>1. ASSUME NEW f \in Eps, slot[f] # None
          PROVE  f # mep /\ slot[f] # mu /\ slot[f] \in Utrs
      <3>1. Kind[f] = "int" /\ utrEp[slot[f]] = f /\ slot[f] \in Utrs
        BY <2>1 DEF ReqInv, SlotInv, TypeInv, MainOK
      <3>2. f # mep
        BY <2>1, <3>1 DEF ReqInv, CallInv
      <3>3. mu # None => utrEp[mu] = mep
        BY DEF ReqInv, CallInv
      <3> QED BY <2>1, <3>1, <3>2, <3>3
    <2> QED BY <2>1
  <1>4. Pend' = Pend /\ AllTds' = Pend /\ Queued' = Queued
    <2>1. Queued' = Queued /\ Todo' = Todo /\ Range(mtds') = {}
      BY <1>1, NoDupEmpty DEF Queued, Todo
    <2>2. Range(work) = {}
      BY IdleTds, NoDupEmpty
    <2> QED BY <2>1, <2>2, TdSetsNext, IdleTds DEF Pend
  <1>5. \A t \in Pend : /\ t \in AllTds /\ t \in Units /\ tdUtr'[t] = tdUtr[t]
                        /\ tdUtr[t] # None => tdUtr[t] \in Utrs /\ tdUtr[t] # mu
    <2>1. ASSUME NEW t \in Pend PROVE t \in AllTds /\ t \in Units /\ tdUtr'[t] = tdUtr[t]
      BY PendFacts
    <2>2. ASSUME NEW t \in Pend, tdUtr[t] # None PROVE tdUtr[t] \in Utrs /\ tdUtr[t] # mu
      <3>1. tdUtr[t] \in Utrs
        BY <2>1, <2>2 DEF TypeInv, MemOK
      <3>2. tdUtr[t] = mu => t \in Out(mu)
        BY DEF Out
      <3> QED BY <2>2, <3>1, <3>2
    <2> QED BY <2>1, <2>2
  <1>6. \A q : Out(q)' = Out(q)
    BY <1>4, <1>5, OutSame
  <1>7. CallInv'
    BY <1>1 DEF CallInv, Submitting, Quitting
  <1>8. SlotInv'
    <2>1. \A f \in Eps : slot[f] # None => hwPipe'[f] = hwPipe[f]
      BY <1>3 DEF TypeInv, LinksOK
    <2> QED BY <1>1, <1>3, <2>1 DEF ReqInv, SlotInv
  <1>9. HandInv'
    BY <1>1, HandMain DEF ReqInv
  <1>10. OwnerInv'
    <2>1. \A t \in Range(mtds') : tdUtr'[t] = mu'
      BY <1>1, NoDupEmpty
    <2>2. \A t \in Range(hcDone') \cup Range(hccaDone') \cup Range(work') : tdUtr'[t] # None
      <3>1. Range(hcDone') \cup Range(hccaDone') \cup Range(work') \subseteq Pend
        BY <1>4, TdSetsNext
      <3> QED BY <1>5, <3>1 DEF ReqInv, OwnerInv
    <2>3. \A t \in AllTds' : tdUtr'[t] # None => alive'[tdUtr'[t]]
      BY <1>1, <1>4, <1>5 DEF ReqInv, OwnerInv
    <2> QED BY <2>1, <2>2, <2>3 DEF OwnerInv
  <1>11. \A u \in Units : info[u] \in Eps /\ ~IsInt(u) => queue[u] = <<>>
    <2>1. ASSUME NEW u \in Units, info[u] \in Eps, ~IsInt(u), queue[u] # <<>> PROVE FALSE
      <3>1. mu # None /\ \A t \in Range(queue[u]) : tdUtr[t] = mu
        BY <2>1 DEF ReqInv, QueuesInv, SyncQueueInv
      <3>2. Last(queue[u]) \in Range(queue[u])
        BY <2>1, LastFacts DEF TypeInv, MemOK
      <3>3. Last(queue[u]) \in Out(mu)
        BY <3>1, <3>2, TdSets DEF Out, Pend
      <3> QED BY <3>1, <3>3
    <2> QED BY <2>1
  <1>12. QueuesInv'
    <2>1. PICK e : e = None
      OBVIOUS
    <2>2. e \notin Eps
      BY <1>0, <2>1
    <2> QED BY <1>1, <1>5, <1>11, <2>2, QueuesMain
  <1>13. CountInv'
    <2>1. ASSUME NEW q \in Utrs
          PROVE  /\ alive'[q] => utrEp'[q] \in Eps
                 /\ ~alive'[q] => tdCnt'[q] = 0 /\ ~done'[q]
                 /\ alive'[q] => tdCnt'[q] = Cardinality(Out(q)')
                 /\ alive'[q] /\ done'[q] /\ Kind[utrEp'[q]] # "int" => tdCnt'[q] = 0
      <3>1. CASE q = mu
        BY <1>1, <3>1
      <3>2. CASE q # mu
        <4>1. /\ alive[q] => utrEp[q] \in Eps
              /\ ~alive[q] => tdCnt[q] = 0 /\ ~done[q]
              /\ alive[q] => tdCnt[q] = Cardinality(Out(q))
              /\ alive[q] /\ done[q] /\ Kind[utrEp[q]] # "int" => tdCnt[q] = 0
          BY <3>2 DEF ReqInv, CountInv, RequestInv
        <4>2. Out(q)' = Out(q)
          BY <1>6
        <4> QED BY <1>1, <3>2, <4>1, <4>2
      <3> QED BY <3>1, <3>2
    <2>2. RequestInv'
      BY <2>1 DEF RequestInv
    <2>3. StageCntInv'
      BY <1>1 DEF StageCntInv, Submitting
    <2> QED BY <2>2, <2>3 DEF CountInv
  <1> QED BY <1>7, <1>8, <1>9, <1>10, <1>12, <1>13 DEF ReqInv

\* The TDs of the call are put under its ED, and td_cnt is their number.
LEMMA ReqLink ==
    ASSUME TypeInv, OwnInv, ReqInv, mpc \in {"ctrl_link", "bulk_td"}, ipc = "idle",
           mpc' = "wait", mtds' = <<>>, NEW ed \in Units, queue[ed] = <<>>,
           queue' = [queue EXCEPT ![ed] = mtds],
           \A u \in Units : info'[u] = IF u = ed THEN mep ELSE info[u],
           ed \in list'[Kind[mep]], hwPipe'[mep] # 0,
           \A e \in Eps : e # mep => hwPipe'[e] = hwPipe[e],
           tdCnt'[mu] = Len(mtds), \A q \in Utrs : q # mu => tdCnt'[q] = tdCnt[q],
           UNCHANGED <<used, tdUtr, alive, utrEp, done, mu, mep>>,
           UNCHANGED <<slot, hcEd, hcDone, hccaDone, wdh, ipc, work>>
    PROVE  ReqInv'
  <1>0. None \notin Utrs /\ None \notin Eps
    BY ConstAssumption
  <1>1. mep \in Eps /\ Kind[mep] # "int" /\ Kind[mep] \in Kinds
    BY ConstAssumption DEF TypeInv, OwnInv, EdsInv, KindInv
  <1>2. mu \in Utrs /\ alive[mu] /\ utrEp[mu] = mep /\ ~done[mu] /\ Submitting /\ Out(mu) = {}
    <2>1. mu \in Utrs /\ alive[mu] /\ utrEp[mu] = mep /\ ~done[mu] /\ Submitting
      BY DEF ReqInv, CallInv, Submitting, Quitting, TypeInv, MainOK
    <2> QED BY <2>1 DEF ReqInv, CountInv, StageCntInv
  <1>3. PICK s \in Seq(Ptr) : s = mtds
    BY DEF TypeInv, MainOK
  <1>4. NoDup(s)
    BY <1>3, Apart
  <1>5. queue'[ed] = s /\ \A u \in Units \ {ed} : queue'[u] = queue[u]
    BY <1>3 DEF TypeInv, MemOK
  <1>6. Queued' = Queued \cup Range(mtds)
    <2>1. ASSUME NEW t, t \in Queued' PROVE t \in Queued \cup Range(mtds)
      <3>1. PICK u \in Units : t \in Range(queue'[u])
        BY <2>1, QueuedNext, Zenon
      <3> QED BY <1>3, <1>5, <3>1, QueuedNext
    <2>2. ASSUME NEW t, t \in Queued PROVE t \in Queued'
      <3>1. PICK u \in Units : t \in Range(queue[u])
        BY <2>2, QueuedNext, Zenon
      <3>2. u # ed
        BY <3>1, NoDupEmpty
      <3> QED BY <1>5, <3>1, <3>2, QueuedNext
    <2>3. Range(mtds) \subseteq Queued'
      BY <1>3, <1>5, QueuedNext
    <2> QED BY <2>1, <2>2, <2>3
  <1>7. Pend' = Pend \cup Range(mtds) /\ AllTds' = AllTds
    <2>1. Range(mtds') = {} /\ Todo' = Todo
      BY NoDupEmpty DEF Todo
    <2> QED BY <1>6, <2>1, TdSets, TdSetsNext DEF Pend
  <1>8. \A t \in Range(mtds) : tdUtr[t] = mu /\ t \in AllTds
    BY TdSets DEF ReqInv, OwnerInv
  <1>9. Out(mu)' = Range(mtds) /\ \A q \in Utrs : q # mu => Out(q)' = Out(q)
    <2>1. \A q : \A t : t \in Out(q) <=> t \in Pend /\ tdUtr[t] = q
      BY DEF Out
    <2>2. \A q : \A t : t \in Out(q)' <=> t \in Pend' /\ tdUtr[t] = q
      BY DEF Out
    <2>3. PICK m : m = mu
      OBVIOUS
    <2>4. Out(m)' = Range(mtds)
      <3>1. ASSUME NEW t PROVE t \in Out(m)' <=> t \in Range(mtds)
        <4>1. t \in Out(m)' <=> (t \in Pend \/ t \in Range(mtds)) /\ tdUtr[t] = m
          BY <1>7, <2>2
        <4>2. ~(t \in Pend /\ tdUtr[t] = m)
          BY <1>2, <2>1, <2>3
        <4>3. t \in Range(mtds) => tdUtr[t] = m
          BY <1>8, <2>3
        <4> QED BY <4>1, <4>2, <4>3, Zenon
      <3> QED BY <3>1
    <2>5. ASSUME NEW q \in Utrs, q # m PROVE Out(q)' = Out(q)
      <3>1. ASSUME NEW t PROVE t \in Out(q)' <=> t \in Out(q)
        <4>1. t \in Out(q)' <=> (t \in Pend \/ t \in Range(mtds)) /\ tdUtr[t] = q
          BY <1>7, <2>2
        <4>2. t \in Range(mtds) => tdUtr[t] # q
          BY <1>8, <2>3, <2>5
        <4>3. t \in Out(q) <=> t \in Pend /\ tdUtr[t] = q
          BY <2>1
        <4> QED BY <4>1, <4>2, <4>3, Zenon
      <3> QED BY <3>1
    <2>6. Out(mu)' = Range(mtds)
      BY <2>3, <2>4 DEF Out
    <2> QED BY <2>3, <2>5, <2>6
  <1>10. CallInv'
    BY <1>0, <1>1, <1>2 DEF CallInv, Submitting, Quitting
  <1>11. SlotInv'
    <2>1. \A f \in Eps : slot[f] # None => f # mep
      BY <1>1 DEF ReqInv, SlotInv
    <2> QED BY <2>1 DEF ReqInv, SlotInv
  <1>12. HandInv'
    BY HandMain DEF ReqInv
  <1>13. OwnerInv'
    <2>1. \A t \in Range(mtds') : tdUtr'[t] = mu'
      BY NoDupEmpty
    <2> QED BY <1>7, <2>1 DEF ReqInv, OwnerInv
  <1>14. \A u \in Units : info[u] \in Eps /\ ~IsInt(u) => queue[u] = <<>>
    BY NoneQueued DEF ReqInv
  <1>15. IntQueueInv'
    <2>1. ASSUME NEW u \in Units, info'[u] \in Eps, Kind[info'[u]] = "int"
          PROVE  u # ed /\ info'[u] = info[u] /\ queue'[u] = queue[u] /\ IsInt(u)
      BY <1>1, <1>5, <2>1 DEF IsInt
    <2> QED BY <2>1 DEF ReqInv, QueuesInv, IntQueueInv, IsInt
  <1>16. SyncQueueInv'
    <2>1. ASSUME NEW u \in Units, info'[u] \in Eps, Kind[info'[u]] # "int", queue'[u] # <<>>
          PROVE  u = ed
      BY <1>5, <1>14, <2>1 DEF IsInt
    <2>2. info'[ed] = mep /\ mu # None /\ \A t \in Range(queue'[ed]) : tdUtr[t] = mu
      BY <1>0, <1>2, <1>3, <1>5, <1>8
    <2> QED BY <2>1, <2>2 DEF SyncQueueInv, IsInt
  <1>17. CountInv'
    <2>1. tdCnt'[mu] = Cardinality(Out(mu)')
      BY <1>3, <1>4, <1>9, NoDupCard
    <2>2. ASSUME NEW q \in Utrs
          PROVE  /\ alive'[q] => utrEp'[q] \in Eps
                 /\ ~alive'[q] => tdCnt'[q] = 0 /\ ~done'[q]
                 /\ alive'[q] => tdCnt'[q] = Cardinality(Out(q)')
                 /\ alive'[q] /\ done'[q] /\ Kind[utrEp'[q]] # "int" => tdCnt'[q] = 0
      <3>1. CASE q = mu
        <4>1. PICK m : m = mu
          OBVIOUS
        <4>2. tdCnt'[m] = Cardinality(Out(m)')
          BY <2>1, <4>1 DEF Out
        <4> QED BY <1>1, <1>2, <3>1, <4>1, <4>2
      <3>2. CASE q # mu
        <4>1. /\ alive[q] => utrEp[q] \in Eps
              /\ ~alive[q] => tdCnt[q] = 0 /\ ~done[q]
              /\ alive[q] => tdCnt[q] = Cardinality(Out(q))
              /\ alive[q] /\ done[q] /\ Kind[utrEp[q]] # "int" => tdCnt[q] = 0
          BY <3>2 DEF ReqInv, CountInv, RequestInv
        <4> QED BY <1>9, <3>2, <4>1
      <3> QED BY <3>1, <3>2
    <2>3. RequestInv'
      BY <2>2 DEF RequestInv
    <2>4. StageCntInv'
      BY DEF StageCntInv, Submitting
    <2> QED BY <2>3, <2>4 DEF CountInv
  <1> QED BY <1>10, <1>11, <1>12, <1>13, <1>15, <1>16, <1>17 DEF ReqInv, QueuesInv

\* msc_bulk_transfer returns on a refused submission and keeps the request.
LEMMA ReqRefused ==
    ASSUME TypeInv, OwnInv, ReqInv, mpc = "bulk_ed", ipc = "idle", Return({}),
           UNCHANGED <<used, info, queue, tdUtr, list, hwPipe>>,
           UNCHANGED <<slot, hcEd, hcDone, hccaDone, wdh, ipc, work>>
    PROVE  ReqInv'
  <1>0. None \notin Utrs
    BY ConstAssumption
  <1>1. /\ mpc' = "idle" /\ mu' = None /\ mep' = None /\ mtds' = <<>>
        /\ \A q \in Utrs : /\ alive'[q] = alive[q] /\ utrEp'[q] = utrEp[q]
                           /\ tdCnt'[q] = tdCnt[q] /\ done'[q] = done[q]
    BY DEF Return, TypeInv, UtrsOK
  <1>2. mtds = <<>> /\ Range(mtds) = {} /\ Range(mtds') = {}
    BY <1>1, NoDupEmpty DEF ReqInv, CallInv
  <1>3. Pend' = Pend /\ AllTds' = AllTds
    <2>1. Queued' = Queued /\ Todo' = Todo
      BY DEF Queued, Todo
    <2> QED BY <1>2, <2>1, TdSets, TdSetsNext DEF Pend
  <1>4. \A q : Out(q)' = Out(q)
    BY <1>3, OutSame
  <1>5. \A t \in AllTds : tdUtr[t] # None => tdUtr[t] \in Utrs
    BY DEF OwnInv, TdsInv, TypeInv, MemOK
  <1>6. \A e \in Eps : slot[e] # None => slot[e] \in Utrs
    BY DEF TypeInv, MainOK
  <1>7. CallInv' /\ SlotInv'
    <2>1. CallInv'
      BY <1>1 DEF CallInv, Submitting, Quitting
    <2> QED BY <1>1, <1>6, <2>1 DEF ReqInv, SlotInv
  <1>8. HandInv'
    BY <1>1, HandMain DEF ReqInv
  <1>9. OwnerInv'
    <2>1. \A t \in AllTds' : tdUtr'[t] # None => alive'[tdUtr'[t]]
      BY <1>1, <1>3, <1>5 DEF ReqInv, OwnerInv
    <2> QED BY <1>2, <2>1 DEF ReqInv, OwnerInv
  <1>10. QueuesInv'
    <2>1. \A u \in Units : info[u] \in Eps /\ ~IsInt(u) => queue[u] = <<>>
      BY NoneQueued DEF ReqInv
    <2>2. mep \in Eps /\ Kind[mep] # "int"
      BY DEF TypeInv, OwnInv, EdsInv, KindInv
    <2>3. \A t \in Pend : tdUtr'[t] = tdUtr[t] /\ (tdUtr[t] # None => utrEp'[tdUtr[t]] = utrEp[tdUtr[t]])
      BY <1>1, <1>5, PendFacts
    <2> QED BY <2>1, <2>2, <2>3, QueuesMain
  <1>11. CountInv'
    <2>1. mu \in Utrs
      BY DEF ReqInv, CallInv, Quitting, TypeInv, MainOK
    <2>2. tdCnt[mu] = 0 /\ Out(mu) = {} /\ Cardinality(Out(mu)) = 0
      BY FS_EmptySet DEF ReqInv, CountInv, StageCntInv, Submitting
    <2>3. ASSUME NEW q \in Utrs
          PROVE  /\ alive'[q] => utrEp'[q] \in Eps
                 /\ ~alive'[q] => tdCnt'[q] = 0 /\ ~done'[q]
                 /\ alive'[q] => tdCnt'[q] = Cardinality(Out(q)')
                 /\ alive'[q] /\ done'[q] /\ Kind[utrEp'[q]] # "int" => tdCnt'[q] = 0
      <3>1. /\ alive[q] => utrEp[q] \in Eps
            /\ ~alive[q] => tdCnt[q] = 0 /\ ~done[q]
            /\ alive[q] /\ q # mu => tdCnt[q] = Cardinality(Out(q))
            /\ alive[q] /\ done[q] /\ Kind[utrEp[q]] # "int" => tdCnt[q] = 0
        BY DEF ReqInv, CountInv, RequestInv
      <3>2. Out(q)' = Out(q)
        BY <1>4
      <3> QED BY <1>1, <2>2, <3>1, <3>2
    <2>4. RequestInv'
      BY <2>3 DEF RequestInv
    <2>5. StageCntInv'
      BY <1>1 DEF StageCntInv, Submitting
    <2> QED BY <2>4, <2>5 DEF CountInv
  <1> QED BY <1>7, <1>8, <1>9, <1>10, <1>11 DEF ReqInv

LEMMA ReqCtrlEd ==
    ASSUME TypeInv, OwnInv, ReqInv, CtrlEd
    PROVE  ReqInv'
  <1>0. 0 \notin Units
    BY DEF Units
  <1>1. /\ UNCHANGED <<list, removeList, slot, frames, hcEd, hcDone, hccaDone, wdh, ipc, work>>
        /\ mpc = "ctrl_td" /\ Len(mtds) = mn /\ ipc = "idle"
    BY DEF CtrlEd, SyncUnch, MainTurn, hc, isr
  <1>2. Kind[mep] = "ctrl" /\ mep \in Eps
    BY <1>1 DEF OwnInv, EdsInv, KindInv, TypeInv
  <1>3. CASE FreeUnits(Range(mtds)) /\ SubmitFails
    <2>1. Return({mu}) /\ hwPipe' = [hwPipe EXCEPT ![mep] = 0]
      BY <1>2, <1>3 DEF SubmitFails
    <2>2. PICK S : S = Range(mtds)
      OBVIOUS
    <2>3. \A t \in S : t \in Units /\ info[t] = None /\ queue[t] = <<>>
      BY <2>2, HeldTds DEF OwnInv, EdsInv, MemInv
    <2>4. info' = info
      <3>1. info \in [Units -> Eps \cup {None}]
        BY DEF TypeInv, MemOK
      <3>2. info' = [u \in Units |-> IF u \in S THEN None ELSE info[u]]
        BY <1>3, <2>2 DEF FreeUnits
      <3> QED BY <2>3, <3>1, <3>2
    <2>5. queue' = queue
      <3>1. queue \in [Units -> Seq(Ptr)]
        BY DEF TypeInv, MemOK
      <3>2. queue' = [u \in Units |-> IF u \in S THEN <<>> ELSE queue[u]]
        BY <1>3, <2>2 DEF FreeUnits
      <3> QED BY <2>3, <3>1, <3>2
    <2>6. /\ \A u \in Units : ~used'[u] => tdUtr'[u] = None
          /\ \A u \in Units \ Range(mtds) : tdUtr'[u] = tdUtr[u]
      BY <1>3 DEF FreeUnits, ReqInv, OwnerInv
    <2>7. Out(mu) = {}
      BY <1>1 DEF ReqInv, CountInv, StageCntInv, Submitting
    <2> QED BY <1>1, <2>1, <2>4, <2>5, <2>6, <2>7, ReqReturn
  <1>4. ASSUME used' = used \/ used' = Taken(used, FirstFree(used)), mpc' = "ctrl_link",
               UNCHANGED <<info, queue, tdUtr, hwPipe, utrs, mu, mep, mtds, mn>>
        PROVE  ReqInv'
    <2>1. \A u \in Units : used[u] => used'[u]
      BY <1>4 DEF Taken
    <2>2. UNCHANGED <<info, queue, tdUtr, hwPipe, alive, utrEp, tdCnt, done, mu, mep, mtds, mn>>
      BY <1>4 DEF utrs
    <2>3. mpc = "ctrl_td" /\ mpc' = "ctrl_link" /\ Len(mtds) = mn
      BY <1>1, <1>4
    <2>4. /\ \A u \in Units : info'[u] = info[u] \/ (queue[u] = <<>> /\ info'[u] = mep)
          /\ \A e \in Eps : hwPipe[e] # 0 => hwPipe'[e] # 0
      BY <2>2
    <2> QED BY <1>1, <2>1, <2>2, <2>3, <2>4, ReqStage
  <1>5. \/ FreeUnits(Range(mtds)) /\ SubmitFails
        \/ /\ used' = used \/ used' = Taken(used, FirstFree(used))
           /\ mpc' = "ctrl_link"
           /\ UNCHANGED <<info, queue, tdUtr, hwPipe, utrs, mu, mep, mtds, mn>>
    BY DEF CtrlEd
  <1> QED BY <1>3, <1>4, <1>5

LEMMA ReqBulkEd ==
    ASSUME TypeInv, OwnInv, ReqInv, BulkEd
    PROVE  ReqInv'
  <1>0. 0 \notin Units
    BY DEF Units
  <1>a. hwPipe \in [Eps -> Ptr] /\ info \in [Units -> Eps \cup {None}]
        /\ used \in [Units -> BOOLEAN] /\ list \in [Kinds -> SUBSET Units]
    BY DEF TypeInv, MemOK, LinksOK
  <1>1. /\ UNCHANGED <<queue, tdUtr, list, slot, hcEd, hcDone, hccaDone, wdh, ipc, work>>
        /\ mpc = "bulk_ed" /\ ipc = "idle"
    BY DEF BulkEd, SyncUnch, MainTurn, hc, isr
  <1>2. Kind[mep] = "bulk" /\ mep \in Eps
    BY <1>1 DEF OwnInv, EdsInv, KindInv, TypeInv
  <1>3. ASSUME SubmitFails, UNCHANGED <<used, info>>
        PROVE  ReqInv'
    <2>1. hwPipe' = hwPipe /\ Return({})
      BY <1>2, <1>3 DEF SubmitFails
    <2> QED BY <1>1, <1>3, <2>1, ReqRefused
  <1>4. ASSUME NEW u, u = FirstFree(used), u # 0, used' = Taken(used, u),
               info' = [info EXCEPT ![u] = mep], hwPipe' = [hwPipe EXCEPT ![mep] = u],
               mpc' = "bulk_td", UNCHANGED <<utrs, mu, mep, mtds, mn>>
        PROVE  ReqInv'
    <2>1. u \in Units /\ queue[u] = <<>>
      BY <1>a, <1>4, FreshUnit
    <2>2. \A v \in Units : used[v] => used'[v]
      BY <1>4 DEF Taken
    <2>3. \A v \in Units : info'[v] = info[v] \/ (queue[v] = <<>> /\ info'[v] = mep)
      BY <1>a, <1>4, <2>1
    <2>4. \A e \in Eps : hwPipe[e] # 0 => hwPipe'[e] # 0
      BY <1>a, <1>4
    <2>5. UNCHANGED <<alive, utrEp, tdCnt, done, mu, mep, mtds, mn>>
      BY <1>4 DEF utrs
    <2> QED BY <1>1, <1>4, <2>2, <2>3, <2>4, <2>5, ReqStage
  <1>5. ASSUME NEW ed \in EdOf(mep), hwPipe' = [hwPipe EXCEPT ![mep] = ed],
               mpc' = "bulk_td", UNCHANGED <<used, info, utrs, mu, mep, mtds, mn>>
        PROVE  ReqInv'
    <2>1. ed \in Units
      BY <1>a, <1>2 DEF EdOf, Kinds
    <2>2. \A e \in Eps : hwPipe[e] # 0 => hwPipe'[e] # 0
      BY <1>0, <1>a, <1>5, <2>1
    <2>3. UNCHANGED <<used, info, alive, utrEp, tdCnt, done, mu, mep, mtds, mn>>
      BY <1>5 DEF utrs
    <2> QED BY <1>1, <1>5, <2>2, <2>3, ReqStage
  <1>6. \/ SubmitFails /\ UNCHANGED <<used, info>>
        \/ \E u : /\ u = FirstFree(used) /\ u # 0 /\ used' = Taken(used, u)
                  /\ info' = [info EXCEPT ![u] = mep] /\ hwPipe' = [hwPipe EXCEPT ![mep] = u]
                  /\ mpc' = "bulk_td" /\ UNCHANGED <<utrs, mu, mep, mtds, mn>>
        \/ \E ed \in EdOf(mep) : /\ hwPipe' = [hwPipe EXCEPT ![mep] = ed] /\ mpc' = "bulk_td"
                                 /\ UNCHANGED <<used, info, utrs, mu, mep, mtds, mn>>
    BY Zenon DEF BulkEd
  <1> QED BY <1>3, <1>4, <1>5, <1>6

\* The two places where the TDs of a call are put under its ED.
LEMMA ReqLinks ==
    ASSUME TypeInv, OwnInv, QuitInv, ReqInv, CtrlLink \/ BulkLink
    PROVE  ReqInv'
  <1>0. 0 \notin Units /\ None \notin Eps
    BY ConstAssumption DEF Units
  <1>a. hwPipe \in [Eps -> Ptr] /\ info \in [Units -> Eps \cup {None}]
        /\ list \in [Kinds -> SUBSET Units] /\ tdCnt \in [Utrs -> Int]
    BY DEF TypeInv, MemOK, LinksOK, UtrsOK
  <1>1. /\ UNCHANGED <<used, tdUtr, alive, utrEp, done, mu, mep>>
        /\ UNCHANGED <<slot, hcEd, hcDone, hccaDone, wdh, ipc, work>>
        /\ mpc \in {"ctrl_link", "bulk_td"} /\ ipc = "idle" /\ mpc' = "wait" /\ mtds' = <<>>
        /\ queue' = [queue EXCEPT ![med] = mtds]
    BY DEF CtrlLink, BulkLink, SyncUnch, MainTurn, hc, isr, utrs
  <1>2. PICK ed \in Units : ed = med
    BY <1>1 DEF TypeInv
  <1>3. mu \in Utrs /\ mep \in Eps
    BY <1>1 DEF ReqInv, CallInv, Submitting, Quitting, TypeInv, MainOK
  <1>4. queue[ed] = <<>>
    <2>1. CASE info[ed] = None
      BY <2>1 DEF OwnInv, EdsInv, MemInv
    <2>2. CASE info[ed] = mep
      <3>1. ~IsInt(ed)
        BY <1>1, <2>2 DEF IsInt, OwnInv, EdsInv, KindInv
      <3> QED BY <1>1, <1>3, <2>2, <3>1, NoneQueued DEF ReqInv
    <2> QED BY <1>0, <1>2, <2>1, <2>2 DEF OwnInv, EdsInv, MedInv, FreshEd
  <1>5. CASE CtrlLink
    <2>1. /\ info' = [info EXCEPT ![ed] = mep] /\ hwPipe' = [hwPipe EXCEPT ![mep] = ed]
          /\ list' = [list EXCEPT !["ctrl"] = {ed}] /\ tdCnt' = [tdCnt EXCEPT ![mu] = mn]
          /\ mpc = "ctrl_link"
      BY <1>2, <1>5 DEF CtrlLink, CtrlTdCnt
    <2>2. Len(mtds) = mn /\ Kind[mep] = "ctrl"
      BY <2>1 DEF ReqInv, CallInv, OwnInv, EdsInv, KindInv
    <2>3. ed \in list'[Kind[mep]]
      BY <1>a, <2>1, <2>2 DEF Kinds
    <2>4. \A u \in Units : info'[u] = IF u = ed THEN mep ELSE info[u]
      BY <1>a, <2>1
    <2>5. hwPipe'[mep] # 0 /\ \A e \in Eps : e # mep => hwPipe'[e] = hwPipe[e]
      BY <1>0, <1>a, <1>3, <2>1
    <2>6. tdCnt'[mu] = Len(mtds) /\ \A q \in Utrs : q # mu => tdCnt'[q] = tdCnt[q]
      BY <1>a, <1>3, <2>1, <2>2
    <2> QED BY <1>1, <1>2, <1>4, <2>3, <2>4, <2>5, <2>6, ReqLink
  <1>6. CASE BulkLink
    <2>1. /\ list' = [list EXCEPT !["bulk"] = @ \cup {ed}] /\ mpc = "bulk_td"
          /\ UNCHANGED <<info, hwPipe, tdCnt>>
      BY <1>2, <1>6 DEF BulkLink, utrs
    <2>2. Kind[mep] = "bulk" /\ info[ed] = mep
      BY <1>0, <1>2, <2>1 DEF OwnInv, EdsInv, KindInv, MedInv, FreshEd
    <2>3. ed \in list'[Kind[mep]]
      BY <1>a, <2>1, <2>2 DEF Kinds
    <2>4. \A u \in Units : info'[u] = IF u = ed THEN mep ELSE info[u]
      BY <2>1, <2>2
    <2>5. hwPipe'[mep] # 0 /\ \A e \in Eps : e # mep => hwPipe'[e] = hwPipe[e]
      <3>1. hwPipe[mep] = ed
        BY <1>3, <2>1, <2>2, SettledEd DEF Quitting
      <3> QED BY <1>0, <2>1, <3>1
    <2>6. tdCnt'[mu] = Len(mtds) /\ \A q \in Utrs : q # mu => tdCnt'[q] = tdCnt[q]
      BY <2>1 DEF ReqInv, CountInv, StageCntInv
    <2> QED BY <1>1, <1>2, <1>4, <2>3, <2>4, <2>5, <2>6, ReqLink
  <1> QED BY <1>5, <1>6

LEMMA ReqSubmit ==
    ASSUME TypeInv, RemoveInv, OwnInv, QuitInv, ReqInv, ~Exhausted,
           XferBegin \/ CtrlAllocTd \/ CtrlEd \/ CtrlLink \/ BulkEd \/ BulkAllocTd \/ BulkMemOut
              \/ BulkLink
    PROVE  ReqInv'
  <1>1. ~BulkMemOut
    BY DEF BulkMemOut, Exhausted
  <1> QED BY <1>1, ReqBegin, ReqTake, ReqCtrlEd, ReqBulkEd, ReqLinks

\* Steps of a call that has no TDs of its own and leaves the memory and the
\* requests alone.
LEMMA ReqCalm ==
    ASSUME TypeInv, OwnInv, ReqInv, ipc = "idle", mtds = <<>>,
           UNCHANGED <<used, info, queue, tdUtr, list, hwPipe, alive, utrEp, tdCnt, done>>,
           UNCHANGED <<hcEd, hcDone, hccaDone, wdh, ipc, work, mtds>>,
           ~Submitting, ~Submitting', CallInv', SlotInv', HandInv', SyncQueueInv',
           \A r : mpc' = "quit_done" /\ mu' = r /\ r # None => Out(r) = {}
    PROVE  ReqInv'
  <1>1. Pend' = Pend /\ AllTds' = AllTds /\ Range(mtds) = {}
    <2>1. Queued' = Queued /\ Todo' = Todo
      BY DEF Queued, Todo
    <2> QED BY <2>1, NoDupEmpty, TdSets, TdSetsNext DEF Pend
  <1>2. \A q : Out(q)' = Out(q)
    BY <1>1, OutSame
  <1>3. OwnerInv'
    BY <1>1 DEF ReqInv, OwnerInv
  <1>4. IntQueueInv'
    BY DEF ReqInv, QueuesInv, IntQueueInv, IsInt
  <1>5. RequestInv'
    BY <1>2 DEF ReqInv, CountInv, RequestInv
  <1>6. StageCntInv'
    <2>1. PICK r : r = mu'
      OBVIOUS
    <2>2. mpc' = "quit_done" /\ mu' # None => Out(r)' = {}
      BY <1>2, <2>1
    <2>3. mpc' = "quit_done" /\ mu' # None => Out(mu)' = {}
      BY <2>1, <2>2 DEF Out
    <2> QED BY <2>3 DEF StageCntInv, Submitting
  <1> QED BY <1>3, <1>4, <1>5, <1>6 DEF ReqInv, QueuesInv, CountInv

\* The steps that bring a call to ohci_quit_xfer.
LEMMA ReqToQuit ==
    ASSUME TypeInv, OwnInv, ReqInv, WaitTimeout \/ QuitEp \/ IntStop
    PROVE  ReqInv'
  <1>0. None \notin Utrs /\ None \notin Eps
    BY ConstAssumption
  <1>1. /\ UNCHANGED <<used, info, queue, tdUtr, list, hwPipe, alive, utrEp, tdCnt, done>>
        /\ UNCHANGED <<hcEd, hcDone, hccaDone, wdh, ipc, work, mtds, mn>>
        /\ ipc = "idle" /\ mpc \in {"wait", "idle"} /\ mpc' = "quit"
    BY Zenon DEF WaitTimeout, QuitEp, IntStop, MainTurn, SyncUnch, mem, links, utrs, hc, isr
  <1>2. mtds = <<>> /\ ~Submitting /\ ~Submitting' /\ ~Quitting'
    BY <1>1 DEF ReqInv, CallInv, Submitting, Quitting
  <1>3. HandInv'
    BY <1>1, HandMain DEF ReqInv
  <1>4. CASE WaitTimeout
    <2>1. mpc = "wait" /\ UNCHANGED <<mu, mep, slot>>
      BY <1>4, Zenon DEF WaitTimeout, SyncUnch
    <2>2. CallInv'
      BY <1>1, <1>2, <2>1 DEF ReqInv, CallInv, Submitting, Quitting
    <2>3. SlotInv'
      BY <1>1, <2>1 DEF ReqInv, SlotInv
    <2>4. SyncQueueInv'
      BY <1>1, <2>1 DEF ReqInv, QueuesInv, SyncQueueInv, IsInt
    <2> QED BY <1>1, <1>2, <1>3, <2>2, <2>3, <2>4, ReqCalm
  <1>5. ASSUME mpc = "idle" PROVE SyncQueueInv'
    <2>1. \A u \in Units : info[u] \in Eps /\ ~IsInt(u) => queue[u] = <<>>
      BY <1>5, NoneQueued DEF ReqInv
    <2> QED BY <1>1, <2>1 DEF SyncQueueInv, IsInt
  <1>6. CASE QuitEp
    <2>1. mpc = "idle" /\ UNCHANGED <<mu, slot>> /\ Kind[mep'] # "int"
      BY <1>6, Zenon DEF QuitEp, SyncUnch
    <2>2. mu = None
      BY <2>1 DEF ReqInv, CallInv
    <2>3. CallInv'
      BY <1>1, <1>2, <2>1, <2>2 DEF CallInv, Submitting, Quitting
    <2>4. SlotInv'
      BY <1>1, <2>1 DEF ReqInv, SlotInv
    <2> QED BY <1>1, <1>2, <1>3, <1>5, <2>1, <2>3, <2>4, ReqCalm
  <1>7. CASE IntStop
    <2>1. PICK e \in Eps : /\ Kind[e] = "int" /\ slot[e] # None /\ mu' = slot[e] /\ mep' = e
                           /\ slot' = [slot EXCEPT ![e] = None] /\ mpc = "idle"
      BY <1>7, ConstAssumption DEF IntStop
    <2>2. slot'[e] = None /\ \A f \in Eps \ {e} : slot'[f] = slot[f]
      BY <2>1 DEF TypeInv, MainOK
    <2>3. alive[slot[e]] /\ utrEp[slot[e]] = e /\ hwPipe[e] # 0
      BY <2>1 DEF ReqInv, SlotInv
    <2>4. CallInv'
      BY <1>1, <1>2, <2>1, <2>2, <2>3 DEF CallInv, Submitting, Quitting
    <2>5. SlotInv'
      BY <1>1, <2>2 DEF ReqInv, SlotInv
    <2> QED BY <1>1, <1>2, <1>3, <1>5, <2>1, <2>4, <2>5, ReqCalm
  <1> QED BY <1>4, <1>6, <1>7

\* ohci_quit_xfer up to the delay.
LEMMA ReqQuit ==
    ASSUME TypeInv, RemoveInv, OwnInv, ReqInv, Quit \/ ArmSf
    PROVE  ReqInv'
  <1>1. /\ UNCHANGED <<used, info, queue, tdUtr, list, hwPipe, alive, utrEp, tdCnt, done>>
        /\ UNCHANGED <<hcEd, hcDone, hccaDone, wdh, ipc, work, mu, mep, mtds, mn, slot, frames>>
        /\ ipc = "idle" /\ ~wdh
    BY Zenon DEF Quit, ArmSf, MainTurn, IrqPending, SyncUnch, mem, links, utrs, hc, isr
  <1>2. mpc \in {"quit", "arm"} /\ mpc' \in {"quit_done", "arm", "delay"}
    BY DEF Quit, ArmSf
  <1>3. mtds = <<>> /\ ~Submitting /\ ~Submitting' /\ Quitting'
    BY <1>2 DEF ReqInv, CallInv, Submitting, Quitting
  <1>4. mpc' = "quit_done" => mu = None
    <2>1. CASE ArmSf
      BY <2>1 DEF ArmSf
    <2>2. CASE Quit
      <3>1. removeList = <<>> /\ mpc = "quit"
        BY <2>2 DEF Quit, RemoveInv
      <3>2. mpc' = "quit_done" => hwPipe[mep] = 0
        BY <2>2, <3>1, NoDupEmpty DEF Quit, NothingToQuit
      <3> QED BY <3>1, <3>2 DEF ReqInv, CallInv
    <2> QED BY <2>1, <2>2
  <1>5. CallInv' /\ SlotInv'
    <2>1. CallInv'
      BY <1>1, <1>2, <1>3 DEF ReqInv, CallInv, Submitting, Quitting
    <2> QED BY <1>1, <2>1 DEF ReqInv, SlotInv
  <1>6. HandInv'
    <2>1. mpc' = "delay" => frames = 0 /\ ~sf'
      BY DEF Quit, ArmSf, RemoveInv
    <2> QED BY <1>1, <2>1 DEF ReqInv, HandInv, TypeInv
  <1>7. SyncQueueInv'
    BY <1>1, <1>2, <1>4 DEF ReqInv, QueuesInv, SyncQueueInv, IsInt
  <1> QED BY <1>1, <1>3, <1>4, <1>5, <1>6, <1>7, ReqCalm

\* After the delay the request has no TD left anywhere: its ED is gone with those
\* that were not retired, and those that were have been counted.
LEMMA ReqDelayOver ==
    ASSUME TypeInv, RemoveInv, OwnInv, QuitInv, ReqInv, DelayOver
    PROVE  ReqInv'
  <1>0. None \notin Utrs /\ None \notin Eps /\ DelayFrames \in Nat /\ DelayFrames > 0
    BY ConstAssumption
  <1>1. /\ UNCHANGED <<used, info, queue, tdUtr, list, hwPipe, alive, utrEp, tdCnt, done>>
        /\ UNCHANGED <<hcEd, hcDone, hccaDone, wdh, ipc, work, mu, mep, mtds, mn, slot>>
        /\ ipc = "idle" /\ ~IrqPending /\ mpc = "delay" /\ mpc' = "quit_done"
    BY Zenon DEF DelayOver, MainTurn, mem, links, utrs, hc, isr
  <1>2. frames > 0 /\ ~wdh /\ removeList = <<>>
    <2>1. frames > 0
      BY <1>0 DEF DelayOver, DelayElapsed, TypeInv, MainOK
    <2> QED BY <1>1, <2>1 DEF RemoveInv, IrqPending
  <1>3. \A u \in Units : info[u] \in Eps => info[u] # mep
    <2>1. Range(removeList) = {}
      BY <1>2, NoDupEmpty
    <2> QED BY <1>1, <2>1 DEF QuitInv, PipesInv, OnePipe, Quitting
  <1>4. mtds = <<>> /\ ~Submitting /\ ~Submitting' /\ Quitting'
    BY <1>1 DEF ReqInv, CallInv, Submitting, Quitting
  <1>5. \A u \in Units : info[u] \in Eps /\ ~IsInt(u) => queue[u] = <<>>
    BY <1>3 DEF ReqInv, QueuesInv, SyncQueueInv
  <1>6. ASSUME mu # None PROVE Out(mu) = {}
    <2>1. utrEp[mu] = mep
      BY <1>6 DEF ReqInv, CallInv
    <2>2. ASSUME NEW t \in Queued PROVE tdUtr[t] # mu
      <3>1. PICK u \in Units : t \in Range(queue[u])
        BY <2>2, QueuedNext, Zenon
      <3>2. queue[u] # <<>>
        BY <3>1, NoDupEmpty
      <3>3. info[u] \in Eps
        BY <3>2 DEF OwnInv, EdsInv, MemInv, TypeInv, MemOK
      <3>4. IsInt(u)
        BY <1>5, <3>2, <3>3
      <3>5. t = Last(queue[u]) \/ utrEp[tdUtr[t]] = info[u]
        BY <3>1, <3>4 DEF ReqInv, QueuesInv, IntQueueInv
      <3>6. tdUtr[Last(queue[u])] = None
        BY <3>4 DEF ReqInv, QueuesInv, IntQueueInv
      <3> QED BY <1>3, <1>6, <2>1, <3>3, <3>5, <3>6
    <2>3. \A t \in Range(hcDone) : tdUtr[t] # mu
      BY <1>1, <1>2, <1>6 DEF ReqInv, HandInv
    <2>4. Range(hccaDone) = {} /\ Todo = {}
      BY <1>1, <1>2, NoDupEmpty, IdleTds DEF ReqInv, HandInv
    <2> QED BY <2>2, <2>3, <2>4 DEF Out, Pend
  <1>7. CallInv' /\ SlotInv'
    <2>1. CallInv'
      BY <1>1, <1>4 DEF ReqInv, CallInv, Submitting, Quitting
    <2> QED BY <1>1, <2>1 DEF ReqInv, SlotInv
  <1>8. HandInv'
    BY <1>1, HandMain DEF ReqInv
  <1>9. SyncQueueInv'
    BY <1>1, <1>5 DEF SyncQueueInv, IsInt
  <1> QED BY <1>1, <1>4, <1>6, <1>7, <1>8, <1>9, ReqCalm

\* The call returns: nothing of its request is outstanding.
LEMMA ReqEnd ==
    ASSUME TypeInv, OwnInv, QuitInv, ReqInv, WaitDone \/ QuitDone
    PROVE  ReqInv'
  <1>1. /\ UNCHANGED <<used, info, queue, tdUtr, list, slot, hcEd, hcDone, hccaDone, wdh, ipc, work>>
        /\ ipc = "idle" /\ mpc \in {"wait", "quit_done"} /\ Return({mu})
        /\ hwPipe' = hwPipe \/ hwPipe' = [hwPipe EXCEPT ![mep] = 0]
    BY Zenon DEF WaitDone, QuitDone, MainTurn, SyncUnch, mem, links, hc, isr
  <1>2. mu # None => Out(mu) = {}
    <2>1. CASE WaitDone
      <3>1. mpc = "wait" /\ done[mu]
        BY <2>1 DEF WaitDone
      <3>2. mu \in Utrs /\ alive[mu] /\ utrEp[mu] = mep /\ Kind[mep] # "int" /\ ~Submitting
        BY <3>1 DEF ReqInv, CallInv, Submitting, Quitting, QuitInv, StopInv, TypeInv, MainOK
      <3>3. Cardinality(Out(mu)) = 0
        BY <3>1, <3>2 DEF ReqInv, CountInv, RequestInv
      <3>4. IsFiniteSet(Out(mu))
        BY PendFacts
      <3> QED BY <3>3, <3>4, FS_EmptySet
    <2>2. CASE QuitDone
      BY <2>2 DEF QuitDone, ReqInv, CountInv, StageCntInv
    <2> QED BY <2>1, <2>2
  <1>3. \A u \in Units : ~used'[u] => tdUtr'[u] = None
    BY <1>1 DEF ReqInv, OwnerInv
  <1> QED BY <1>1, <1>2, <1>3, ReqReturn

\* ohci_int_xfer fails: td_new is lost, and nothing else changes.
LEMMA ReqIntFail ==
    ASSUME TypeInv, OwnInv, ReqInv, mpc = "idle", NEW e, IntXferFail(e),
           UNCHANGED <<alive, utrEp, tdCnt, done, mpc, mu, mep, mtds, mn, slot>>,
           UNCHANGED <<hcEd, hcDone, hccaDone, wdh, ipc, work>>
    PROVE  ReqInv'
  <1>1. UNCHANGED <<info, queue, tdUtr, list, hwPipe>> /\ \A u \in Units : used[u] => used'[u]
    BY DEF IntXferFail, Taken
  <1>2. Pend' = Pend /\ AllTds' = AllTds
    <2>1. Queued' = Queued /\ Todo' = Todo
      BY <1>1 DEF Queued, Todo
    <2> QED BY <2>1, TdSets, TdSetsNext DEF Pend
  <1>3. CallInv' /\ SlotInv'
    BY <1>1, CallKeep DEF ReqInv
  <1>4. HandInv'
    BY HandMain DEF ReqInv
  <1>5. OwnerInv'
    BY <1>1, <1>2 DEF ReqInv, OwnerInv
  <1>6. QueuesInv'
    BY <1>1 DEF ReqInv, QueuesInv, IntQueueInv, SyncQueueInv, IsInt
  <1>7. CountInv'
    BY <1>1, <1>2, CountKeep DEF ReqInv
  <1> QED BY <1>3, <1>4, <1>5, <1>6, <1>7 DEF ReqInv

\* The owner of an interrupt pipe submits its request, a new one or its own.
LEMMA ReqIntOk ==
    ASSUME TypeInv, RemoveInv, OwnInv, QuitInv, ReqInv, mpc = "idle",
           NEW e \in Eps, NEW r \in Utrs, Kind[e] = "int", ~IntXferFails(e), IntXferOk(r, e),
           Out(r) = {}, ~alive[r] \/ slot[e] = r,
           alive' = [alive EXCEPT ![r] = TRUE], utrEp' = [utrEp EXCEPT ![r] = e],
           tdCnt' = [tdCnt EXCEPT ![r] = 1], slot' = [slot EXCEPT ![e] = r],
           UNCHANGED <<done, mpc, mu, mep, mtds, mn>>,
           UNCHANGED <<hcEd, hcDone, hccaDone, wdh, ipc, work>>
    PROVE  ReqInv'
  <1>0. None \notin Utrs /\ None \notin Eps /\ 0 \notin Units
    BY ConstAssumption DEF Units
  <1>1. mu = None /\ ~Submitting /\ ~Quitting
    BY DEF ReqInv, CallInv, Submitting, Quitting
  <1>2. /\ alive'[r] /\ utrEp'[r] = e /\ tdCnt'[r] = 1
        /\ \A q \in Utrs \ {r} : alive'[q] = alive[q] /\ utrEp'[q] = utrEp[q] /\ tdCnt'[q] = tdCnt[q]
        /\ slot'[e] = r /\ \A f \in Eps \ {e} : slot'[f] = slot[f]
    BY DEF TypeInv, UtrsOK, MainOK
  <1>3. ~alive[r] \/ utrEp[r] = e
    BY <1>0 DEF ReqInv, SlotInv
  <1>4. PICK ed \in Units, x \in Units, n \in Units : Filled(r, e, ed, x, n)
    BY <1>1, IntXferFills DEF ReqInv
  <1>5. Pend' = (Pend \ Out(r)) \cup {x, n}
    <2>1. Queued' = Queued \cup {x, n}
      BY <1>4, FilledTds DEF ReqInv
    <2>2. Todo' = Todo
      BY DEF Todo
    <2> QED BY <2>1, <2>2 DEF Pend
  <1>6. CountInv'
    BY <1>0, <1>1, <1>2, <1>4, <1>5, FilledCount DEF ReqInv
  <1>7. OwnerInv' /\ QueuesInv'
    BY <1>2, <1>3, <1>4, ReqFilled DEF ReqInv
  <1>8. CallInv'
    BY <1>1 DEF ReqInv, CallInv, Submitting, Quitting
  <1>9. SlotInv'
    <2>1. hwPipe'[e] # 0 /\ \A f \in Eps \ {e} : hwPipe'[f] = hwPipe[f]
      BY <1>0, <1>4 DEF Filled, TypeInv, LinksOK
    <2>2. ASSUME NEW f \in Eps, f # e, slot[f] # None PROVE slot[f] \in Utrs \ {r}
      BY <1>3, <2>2 DEF ReqInv, SlotInv, TypeInv, MainOK
    <2> QED BY <1>2, <2>1, <2>2 DEF ReqInv, SlotInv
  <1>10. HandInv'
    BY HandMain DEF ReqInv
  <1> QED BY <1>6, <1>7, <1>8, <1>9, <1>10 DEF ReqInv

LEMMA ReqInt ==
    ASSUME TypeInv, RemoveInv, OwnInv, QuitInv, ReqInv, IntStart \/ HubResubmit
    PROVE  ReqInv'
  <1>0. None \notin Utrs
    BY ConstAssumption
  <1>1. UNCHANGED <<done, mpc, mu, mep, mtds, mn>> /\ mpc = "idle"
    BY Zenon DEF IntStart, HubResubmit, main
  <1>2. UNCHANGED <<hcEd, hcDone, hccaDone, wdh, ipc, work>>
    BY Zenon DEF IntStart, HubResubmit, hc, isr
  <1>3. CASE IntStart
    <2>1. PICK e \in Eps, r \in Utrs :
             /\ Kind[e] = "int" /\ ~alive[r]
             /\ IF IntXferFails(e)
                THEN IntXferFail(e) /\ UNCHANGED <<alive, utrEp, tdCnt, slot>>
                ELSE /\ IntXferOk(r, e)
                     /\ alive' = [alive EXCEPT ![r] = TRUE]
                     /\ utrEp' = [utrEp EXCEPT ![r] = e]
                     /\ tdCnt' = [tdCnt EXCEPT ![r] = 1]
                     /\ slot' = [slot EXCEPT ![e] = r]
      BY <1>3 DEF IntStart
    <2>2. Out(r) = {}
      BY <2>1, PendFacts DEF ReqInv
    <2>3. CASE IntXferFails(e)
      BY <1>1, <1>2, <2>1, <2>3, ReqIntFail
    <2>4. CASE ~IntXferFails(e)
      BY <1>1, <1>2, <2>1, <2>2, <2>4, ReqIntOk
    <2> QED BY <2>3, <2>4
  <1>4. CASE HubResubmit
    <2>a. PICK e \in Eps :
             /\ Kind[e] = "int" /\ slot[e] # None /\ done[slot[e]] /\ tdCnt[slot[e]] = 0
             /\ IF IntXferFails(e)
                THEN IntXferFail(e) /\ UNCHANGED tdCnt
                ELSE IntXferOk(slot[e], e) /\ tdCnt' = [tdCnt EXCEPT ![slot[e]] = 1]
             /\ UNCHANGED <<alive, utrEp, slot>>
      BY <1>4 DEF HubResubmit, main
    <2>b. PICK r : r = slot[e]
      OBVIOUS
    <2>1. /\ Kind[e] = "int" /\ r # None /\ r = slot[e] /\ done[r] /\ tdCnt[r] = 0
          /\ IF IntXferFails(e)
             THEN IntXferFail(e) /\ UNCHANGED tdCnt
             ELSE IntXferOk(r, e) /\ tdCnt' = [tdCnt EXCEPT ![r] = 1]
          /\ UNCHANGED <<alive, utrEp, slot>>
      BY <2>a, <2>b
    <2>2. r \in Utrs /\ alive[r] /\ utrEp[r] = e
      BY <2>1 DEF ReqInv, SlotInv, TypeInv, MainOK
    <2>3. Out(r) = {}
      <3>1. Cardinality(Out(r)) = 0
        BY <1>1, <2>1, <2>2 DEF ReqInv, CountInv, RequestInv, Submitting
      <3>2. IsFiniteSet(Out(r))
        BY PendFacts
      <3> QED BY <3>1, <3>2, FS_EmptySet
    <2>4. CASE IntXferFails(e)
      BY <1>1, <1>2, <2>1, <2>4, ReqIntFail
    <2>5. CASE ~IntXferFails(e)
      <3>1. /\ alive' = [alive EXCEPT ![r] = TRUE] /\ utrEp' = [utrEp EXCEPT ![r] = e]
            /\ slot' = [slot EXCEPT ![e] = r]
        BY <2>1, <2>2 DEF TypeInv, UtrsOK, MainOK
      <3> QED BY <1>1, <1>2, <2>1, <2>2, <2>3, <2>5, <3>1, ReqIntOk
    <2> QED BY <2>4, <2>5
  <1> QED BY <1>3, <1>4

LEMMA ReqInit == Init => ReqInv
  <1> SUFFICES ASSUME Init PROVE ReqInv
    OBVIOUS
  <1>0. None \notin Utrs /\ None \notin Eps
    BY ConstAssumption
  <1>1. Pend = {} /\ AllTds = {} /\ Range(work) = {} /\ Range(mtds) = {}
    <2>1. Range(mtds) = {} /\ Range(work) = {} /\ Range(hcDone) = {} /\ Range(hccaDone) = {}
      BY NoDupEmpty DEF Init
    <2>2. \A u \in Units : queue[u] = <<>>
      BY DEF Init
    <2>3. Queued = {}
      <3>1. \A u \in Units : Range(queue[u]) = {}
        BY <2>2, NoDupEmpty
      <3> QED BY <3>1, QueuedNext
    <2>4. Todo = {}
      BY <2>1 DEF Init, Todo
    <2> QED BY <2>1, <2>3, <2>4, TdSets DEF Pend
  <1>2. CallInv /\ SlotInv /\ HandInv
    BY <1>0 DEF Init, CallInv, SlotInv, HandInv, Submitting, Quitting
  <1>3. OwnerInv
    <2>1. Range(hcDone) = {} /\ Range(hccaDone) = {}
      BY NoDupEmpty DEF Init
    <2> QED BY <1>1, <2>1 DEF Init, OwnerInv
  <1>4. QueuesInv
    BY <1>0 DEF Init, QueuesInv, IntQueueInv, SyncQueueInv, IsInt
  <1>5. CountInv
    BY DEF Init, CountInv, RequestInv, StageCntInv, Submitting
  <1> QED BY <1>2, <1>3, <1>4, <1>5 DEF ReqInv

LEMMA ReqNext ==
    ASSUME NoRace, TypeInv, RemoveInv, OwnInv, QuitInv, ReqInv, ~Starved, [Next]_vars
    PROVE  ReqInv'
  <1>1. CASE UNCHANGED vars
    <2>1. UNCHANGED <<used, info, queue, tdUtr, list, hwPipe, alive, utrEp, tdCnt, done>>
      BY <1>1, Zenon DEF vars, mem, links, utrs
    <2>2. UNCHANGED <<mpc, mu, mep, mtds, mn, slot, frames>>
      BY <1>1, Zenon DEF vars, main
    <2>3. UNCHANGED <<hcEd, hcDone, hccaDone, wdh, sf, ipc, work>>
      BY <1>1, Zenon DEF vars, hc, isr
    <2>4. Pend' = Pend /\ AllTds' = AllTds
      <3>1. Queued' = Queued /\ Todo' = Todo
        BY <2>1, <2>3 DEF Queued, Todo
      <3> QED BY <2>2, <2>3, <3>1, TdSets, TdSetsNext DEF Pend
    <2>5. HandInv'
      BY <2>1, <2>2, <2>3, HandKeep DEF ReqInv
    <2> QED BY <2>1, <2>2, <2>3, <2>4, <2>5, ReqStill
  <1>2. ~Exhausted /\ ~Dropped
    BY DEF Starved
  <1> QED BY <1>1, <1>2, ReqHc, ReqIsr, ReqSubmit, ReqToQuit, ReqQuit, ReqDelayOver, ReqEnd, ReqInt
             DEF Next, Main

-----------------------------------------------------------------------------
(* What a reader may rely on.                                              *)

\* Every chain is looked at: an ED that is on no list, no pipe's and not to be
\* removed has no TDs.
LEMMA EdsActive ==
    ASSUME TypeInv, RemoveInv, OwnInv, QuitInv
    PROVE  /\ \A u \in Units : info[u] \in Eps => u \in ActiveEds
           /\ \A u \in Units : queue[u] # <<>> => u \in ActiveEds
           /\ LiveTds = AllTds
  <1>0. 0 \notin Units
    BY DEF Units
  <1>1. ASSUME NEW u \in Units, info[u] \in Eps PROVE u \in ActiveEds
    <2>1. CASE info[u] = mep /\ Quitting
      BY <1>0, <1>1, <2>1 DEF QuitInv, PipesInv, OnePipe, ActiveEds
    <2>2. CASE ~(info[u] = mep /\ Quitting)
      <3>1. hwPipe[info[u]] = u
        BY <1>1, <2>2 DEF QuitInv, PipesInv, OnePipe
      <3>2. u \in SettledPipes
        BY <1>1, <2>2, <3>1 DEF SettledPipes, Quitting
      <3> QED BY <1>0, <3>2 DEF ActiveEds
    <2> QED BY <2>1, <2>2
  <1>2. ASSUME NEW u \in Units, queue[u] # <<>> PROVE u \in ActiveEds
    <2>1. info[u] \in Eps
      BY <1>2 DEF OwnInv, EdsInv, MemInv, TypeInv, MemOK
    <2> QED BY <1>1, <2>1
  <1>3. LiveTds \subseteq AllTds
    BY ActiveFacts DEF LiveTds, AllTds
  <1>4. AllTds \subseteq LiveTds
    <2>1. ASSUME NEW p \in Spots, NEW t \in TdsOn(p) PROVE t \in LiveTds
      <3>1. CASE p \in Places
        BY <2>1, <3>1 DEF LiveTds
      <3>2. CASE p \notin Places
        <4>1. PICK u \in Units : p = <<"ed", u>> /\ u \notin ActiveEds
          BY <3>2, SpotsAre DEF Places
        <4>2. queue[u] = <<>>
          BY <1>2, <4>1
        <4>3. TdsOn(p) = {}
          BY <4>1, <4>2, ChainIs, NoDupEmpty DEF TdsOn
        <4> QED BY <2>1, <4>3
      <3> QED BY <3>1, <3>2
    <2> QED BY <2>1 DEF AllTds
  <1> QED BY <1>1, <1>2, <1>3, <1>4

\* The TDs outstanding are those counted.
LEMMA OutIsOutstanding ==
    ASSUME TypeInv, RemoveInv, OwnInv, QuitInv, NEW r
    PROVE  Outstanding(r) = Out(r)
  <1>1. PICK w \in Seq(Ptr) : w = work
    BY DEF TypeInv, IsrOK
  <1>2. ASSUME NEW t
        PROVE  (\E p \in Places : p[1] \notin {"main", "isr"} /\ t \in TdsOn(p))
                   <=> t \in Queued \cup Range(hcDone) \cup Range(hccaDone)
    <2>1. ASSUME NEW p \in Places, p[1] \notin {"main", "isr"}, t \in TdsOn(p)
          PROVE  t \in Queued \cup Range(hcDone) \cup Range(hccaDone)
      <3>1. p \in Spots /\ p # <<"main", 0>> /\ p # <<"isr", 0>>
        BY <2>1, ActiveFacts
      <3>2. p = <<"hc", 0>> \/ p = <<"hcca", 0>> \/ \E u \in Units : p = <<"ed", u>>
        BY <3>1, SpotsAre
      <3> QED BY <2>1, <3>2, ChainIs, TdSets DEF TdsOn
    <2>2. ASSUME t \in Range(hcDone) \cup Range(hccaDone)
          PROVE  \E p \in Places : p[1] \notin {"main", "isr"} /\ t \in TdsOn(p)
      <3>1. /\ <<"hc", 0>> \in Places /\ <<"hcca", 0>> \in Places
            /\ <<"hc", 0>>[1] = "hc" /\ <<"hcca", 0>>[1] = "hcca"
        BY DEF Places
      <3> QED BY <2>2, <3>1, ChainIs DEF TdsOn
    <2>3. ASSUME t \in Queued
          PROVE  \E p \in Places : p[1] \notin {"main", "isr"} /\ t \in TdsOn(p)
      <3>1. PICK u \in Units : t \in Range(queue[u])
        BY <2>3, QueuedNext, Zenon
      <3>2. u \in ActiveEds
        BY <3>1, EdsActive, NoDupEmpty
      <3>3. <<"ed", u>> \in Places /\ <<"ed", u>>[1] = "ed" /\ t \in TdsOn(<<"ed", u>>)
        BY <3>1, <3>2, ChainIs DEF Places, TdsOn
      <3> QED BY <3>3
    <2> QED BY <2>1, <2>2, <2>3
  <1>3. ASSUME NEW t
        PROVE  (\E i \in DOMAIN w : t = w[i] /\ (ipc = "td_free" => i > 1)) <=> t \in Todo
    <2>1. CASE ipc # "td_free"
      BY <1>1, <2>1 DEF Todo, Range
    <2>2. CASE ipc = "td_free"
      <3>1. w # <<>> /\ Todo = Range(Tail(w))
        BY <1>1, <2>2 DEF TypeInv, Todo
      <3>2. /\ DOMAIN w = 1..Len(w) /\ Len(w) \in Nat /\ Len(w) > 0
            /\ DOMAIN Tail(w) = 1..(Len(w) - 1)
            /\ \A j \in 1..(Len(w) - 1) : Tail(w)[j] = w[j + 1]
        BY <3>1
      <3>3. t \in Todo <=> \E j \in 1..(Len(w) - 1) : t = w[j + 1]
        BY <3>1, <3>2 DEF Range
      <3>4. ASSUME NEW i \in DOMAIN w, i > 1, t = w[i] PROVE \E j \in 1..(Len(w) - 1) : t = w[j + 1]
        <4>1. i - 1 \in 1..(Len(w) - 1) /\ (i - 1) + 1 = i
          BY <3>2, <3>4
        <4> QED BY <3>4, <4>1
      <3>5. ASSUME NEW j \in 1..(Len(w) - 1), t = w[j + 1] PROVE \E i \in DOMAIN w : t = w[i] /\ i > 1
        <4>1. j + 1 \in DOMAIN w /\ j + 1 > 1
          BY <3>2, <3>5
        <4> QED BY <3>5, <4>1
      <3> QED BY <2>2, <3>3, <3>4, <3>5
    <2> QED BY <2>1, <2>2
  <1>4. ASSUME NEW t PROVE t \in Outstanding(r) <=> t \in Out(r)
    <2>1. t \in Outstanding(r)
             <=> \/ /\ \E p \in Places : p[1] \notin {"main", "isr"} /\ t \in TdsOn(p)
                    /\ tdUtr[t] = r
                 \/ \E i \in DOMAIN w : t = w[i] /\ tdUtr[w[i]] = r /\ (ipc = "td_free" => i > 1)
      BY <1>1 DEF Outstanding
    <2>2. (\E i \in DOMAIN w : t = w[i] /\ tdUtr[w[i]] = r /\ (ipc = "td_free" => i > 1))
             <=> (\E i \in DOMAIN w : t = w[i] /\ (ipc = "td_free" => i > 1)) /\ tdUtr[t] = r
      OBVIOUS
    <2> QED BY <1>2, <1>3, <2>1, <2>2 DEF Out, Pend
  <1> QED BY <1>4

\* All of it holds in every state.
LEMMA ReqHolds == NoRace => (Spec /\ []~Starved => [](TypeInv /\ RemoveInv /\ OwnInv /\ QuitInv /\ ReqInv))
  <1> SUFFICES ASSUME NoRace
               PROVE  Spec /\ []~Starved => [](TypeInv /\ RemoveInv /\ OwnInv /\ QuitInv /\ ReqInv)
    OBVIOUS
  <1>1. ~Starved => ~Exhausted
    BY DEF Starved
  <1>2. TypeInv /\ RemoveInv /\ OwnInv /\ QuitInv /\ ~Exhausted /\ [Next]_vars => QuitInv'
    BY QuitNext
  <1>3. TypeInv /\ RemoveInv /\ OwnInv /\ QuitInv /\ ReqInv /\ ~Starved /\ [Next]_vars => ReqInv'
    BY ReqNext
  <1> QED BY <1>1, <1>2, <1>3, QuitInit, ReqInit, OwnHolds, PTL DEF Spec

\* No TD that the controller or the interrupt handler can still come to is for a
\* request its owner has freed: when ohci_quit_xfer returns, none of the request's
\* TDs is left on a queue or on a done list.
THEOREM NoFreedRequestHolds == NoRace => (Spec /\ []~Starved => []NoFreedRequest)
  <1> SUFFICES ASSUME NoRace PROVE Spec /\ []~Starved => []NoFreedRequest
    OBVIOUS
  <1>1. TypeInv /\ RemoveInv /\ OwnInv /\ QuitInv /\ ReqInv => NoFreedRequest
    BY EdsActive DEF NoFreedRequest, ReqInv, OwnerInv
  <1> QED BY <1>1, ReqHolds, PTL

\* td_cnt of a request is the number of its TDs that are queued, retired or taken
\* and not yet counted, so that its callback comes with the last of them.
THEOREM TdCntExactHolds == NoRace => (Spec /\ []~Starved => []TdCntExact)
  <1> SUFFICES ASSUME NoRace PROVE Spec /\ []~Starved => []TdCntExact
    OBVIOUS
  <1>1. TypeInv /\ RemoveInv /\ OwnInv /\ QuitInv /\ ReqInv => TdCntExact
    <2> SUFFICES ASSUME TypeInv, RemoveInv, OwnInv, QuitInv, ReqInv, NEW r \in Utrs, alive[r],
                        ~(r = mu /\ mpc \in {"ctrl_td", "ctrl_link", "bulk_td"})
                 PROVE  tdCnt[r] = Cardinality(Outstanding(r))
      BY DEF TdCntExact
    <2>1. tdCnt[r] = Cardinality(Out(r))
      <3>1. CASE r = mu /\ Submitting
        <4>1. tdCnt[r] = 0 /\ Out(r) = {}
          BY <3>1 DEF ReqInv, CountInv, StageCntInv, Submitting
        <4> QED BY <4>1, FS_EmptySet
      <3>2. CASE ~(r = mu /\ Submitting)
        BY <3>2 DEF ReqInv, CountInv, RequestInv
      <3> QED BY <3>1, <3>2
    <2> QED BY <2>1, OutIsOutstanding
  <1> QED BY <1>1, ReqHolds, PTL

\* A step that could change the result of a call leaves it alone: nothing of the
\* request is outstanding, or the thread has not linked it yet.
LEMMA ResultStep ==
    ASSUME TypeInv, RemoveInv, OwnInv, QuitInv, ReqInv, [Next]_vars,
           NEW r \in Utrs, alive[r], alive'[r], done[r], Kind[utrEp[r]] # "int"
    PROVE  status'[r] = status[r] /\ tdCnt'[r] = tdCnt[r]
  <1>a. status \in [Utrs -> {"ok", "error", "abort"}] /\ tdCnt \in [Utrs -> Int]
        /\ None \notin Utrs
    BY ConstAssumption DEF TypeInv, UtrsOK
  <1>b. r = mu => ~Submitting
    BY DEF ReqInv, CallInv
  <1>c. tdCnt[r] = 0 /\ Out(r) = {}
    <2>1. tdCnt[r] = 0 /\ Cardinality(Out(r)) = 0
      BY <1>b DEF ReqInv, CountInv, RequestInv
    <2> QED BY <2>1, PendFacts, FS_EmptySet
  <1>1. CASE Hc \/ UNCHANGED vars
    <2>1. UNCHANGED utrs
      BY <1>1, Zenon DEF Hc, HcFetch, HcNak, HcRetire, HcFrame, vars
    <2> QED BY <2>1 DEF utrs
  <1>2. CASE IsrEnter \/ RemoveDone \/ TakeDoneList \/ TdFree \/ IsrExit
    <2>1. UNCHANGED utrs
      BY <1>2, Zenon DEF IsrEnter, RemoveDone, TakeDoneList, TdFree, IsrExit
    <2> QED BY <2>1 DEF utrs
  <1>3. CASE RemoveEd
    <2>1. PICK ed : ed = Head(removeList) /\ removeList # <<>>
      BY <1>3 DEF RemoveEd
    <2>2. ed \in Units /\ mpc = "delay"
      BY <1>3, <2>1 DEF RemoveEd, TypeInv, LinksOK, RemoveInv
    <2>3. CntAfterRemove(ed, r) = 0
      <3>1. CntAfterRemove(ed, r) = Cardinality(Out(r) \ Range(queue[ed]))
        BY <2>2, CountRemoved
      <3>2. Out(r) \ Range(queue[ed]) = {}
        BY <1>c
      <3> QED BY <3>1, <3>2, FS_EmptySet
    <2>4. \/ /\ tdCnt' = [q \in Utrs |-> CntAfterRemove(ed, q)]
             /\ status' = [q \in Utrs |-> IF tdCnt[q] > 0 /\ CntAfterRemove(ed, q) = 0
                                          THEN "abort" ELSE status[q]]
          \/ UNCHANGED <<tdCnt, status>>
      BY <1>3, <2>1 DEF RemoveEd
    <2> QED BY <1>c, <2>3, <2>4
  <1>4. CASE TdDone \/ TdDoneResubmit
    <2>1. PICK q : q = tdUtr[Head(work)]
      OBVIOUS
    <2>2. ipc = "td_done" /\ work # <<>>
      BY <1>4 DEF TdDone, TdDoneResubmit
    <2>3. q # r
      BY <1>c, <2>1, <2>2, AtHand
    <2>4. /\ tdCnt' = [tdCnt EXCEPT ![q] = tdCnt[q] - 1] \/ tdCnt' = [tdCnt EXCEPT ![q] = 0]
             \/ tdCnt' = [tdCnt EXCEPT ![q] = 1]
          /\ status' = status \/ status' = [status EXCEPT ![q] = "error"]
      BY <1>4, <2>1 DEF TdDone, TdDoneCount, TdDoneResubmit
    <2> QED BY <1>a, <2>3, <2>4
  <1>5. CASE CtrlLink \/ BulkAllocTd
    <2>1. r # mu
      BY <1>5, <1>b DEF CtrlLink, BulkAllocTd, Submitting
    <2>2. /\ status' = status
          /\ tdCnt' = [tdCnt EXCEPT ![mu] = CtrlTdCnt] \/ tdCnt' = [tdCnt EXCEPT ![mu] = tdCnt[mu] + 1]
      BY <1>5 DEF CtrlLink, BulkAllocTd
    <2> QED BY <1>a, <2>1, <2>2
  <1>6. ASSUME NEW S, Return(S) PROVE status'[r] = status[r] /\ tdCnt'[r] = tdCnt[r]
    <2>1. r \notin S
      BY <1>6 DEF Return
    <2> QED BY <1>6, <2>1 DEF Return
  <1>7. CASE CtrlEd \/ BulkEd \/ BulkMemOut \/ WaitDone \/ QuitDone
    <2>1. UNCHANGED utrs \/ Return({mu}) \/ Return({})
      BY <1>7, Zenon DEF CtrlEd, BulkEd, BulkMemOut, WaitDone, QuitDone, SubmitFails
    <2> QED BY <1>6, <2>1 DEF utrs
  <1>8. CASE XferBegin \/ CtrlAllocTd \/ BulkLink \/ WaitTimeout \/ QuitEp \/ IntStop \/ Quit \/ ArmSf
             \/ DelayOver
    BY <1>8 DEF XferBegin, CtrlAllocTd, BulkLink, WaitTimeout, QuitEp, IntStop, Quit, ArmSf,
                DelayOver, utrs
  <1>9. CASE IntStart \/ HubResubmit
    <2>1. status' = status /\ (tdCnt' = tdCnt \/ \E q : q # r /\ tdCnt' = [tdCnt EXCEPT ![q] = 1])
      <3>1. CASE IntStart
        BY <3>1 DEF IntStart
      <3>2. CASE HubResubmit
        <4>1. PICK e \in Eps :
                 /\ Kind[e] = "int" /\ slot[e] # None
                 /\ tdCnt' = tdCnt \/ tdCnt' = [tdCnt EXCEPT ![slot[e]] = 1]
          BY <3>2 DEF HubResubmit
        <4>2. utrEp[slot[e]] = e
          BY <4>1 DEF ReqInv, SlotInv
        <4>3. slot[e] # r
          BY <4>1, <4>2
        <4> QED BY <3>2, <4>1, <4>3 DEF HubResubmit
      <3> QED BY <1>9, <3>1, <3>2
    <2> QED BY <1>a, <2>1
  <1> QED BY <1>1, <1>2, <1>3, <1>4, <1>5, <1>7, <1>8, <1>9 DEF Next, Isr, Main

\* What the client of a control or bulk request reads once it has seen
\* bIsTransferDone is final: no TD of the request is retired, removed or counted
\* after that.
THEOREM ResultStableHolds == NoRace => (Spec /\ []~Starved => ResultStable)
  <1> SUFFICES ASSUME NoRace PROVE Spec /\ []~Starved => ResultStable
    OBVIOUS
  <1>1. TypeInv /\ RemoveInv /\ OwnInv /\ QuitInv /\ ReqInv /\ [Next]_vars
           => [\A r \in Utrs : /\ alive[r] /\ alive'[r] /\ done[r]
                               /\ Kind[utrEp[r]] # "int"
                               => status'[r] = status[r] /\ tdCnt'[r] = tdCnt[r]]_vars
    BY ResultStep
  <1> QED BY <1>1, ReqHolds, PTL DEF Spec, ResultStable

-----------------------------------------------------------------------------
(* The units.                                                              *)

\* A pipe can be started with a single unit left: ohci_int_xfer takes it for
\* td_new, finds none for the ED and returns without freeing it.
Spilled == /\ mpc = "idle" /\ IntNew # 0 /\ IntNewEd = 0
           /\ \E e \in Eps : Kind[e] = "int" /\ slot[e] = None /\ EdOf(e) = {}

\* An allocated unit is a TD, an ED, or the one the thread is about to make one.
UnitsInv == \A u \in Units : used[u] => u \in AllTds \/ info[u] \in Eps \/ u = med

\* A step frees the units in Gone and keeps hold of all others.
LEMMA UnitsStep ==
    ASSUME UnitsInv, NEW Gone,
           \A u \in Units : used'[u] => /\ u \notin Gone
                                        /\ used[u] \/ u \in AllTds' \/ info'[u] \in Eps \/ u = med',
           \A u \in Units \ Gone : u \in AllTds => u \in AllTds',
           \A u \in Units \ Gone : info[u] \in Eps => info'[u] \in Eps,
           \A u \in Units : u = med => u = med' \/ info'[u] \in Eps
    PROVE  UnitsInv'
  BY DEF UnitsInv

LEMMA UnitsSame ==
    ASSUME UnitsInv, UNCHANGED <<used, info>>, AllTds \subseteq AllTds',
           \A u \in Units : u = med => u = med' \/ info'[u] \in Eps
    PROVE  UnitsInv'
  BY DEF UnitsInv

\* A TD is retired.
LEMMA RetiredTds ==
    ASSUME TypeInv, OwnInv, HcRetire
    PROVE  AllTds \subseteq AllTds'
  <1>1. PICK ed \in Units : ed = hcEd
    BY DEF HcRetire, TypeInv, HcOK, Units, Ptr
  <1>2. PICK q \in Seq(Ptr) : q = queue[ed]
    BY <1>1 DEF TypeInv, MemOK
  <1>3. PICK t : t = Head(q)
    OBVIOUS
  <1>4. /\ q # <<>> /\ queue' = [queue EXCEPT ![ed] = Tail(q)] /\ hcDone' = <<t>> \o hcDone
        /\ UNCHANGED <<hccaDone, mtds, work>>
    BY <1>1, <1>2, <1>3 DEF HcRetire, main, isr
  <1>5. queue'[ed] = Tail(q) /\ \A u \in Units \ {ed} : queue'[u] = queue[u]
    BY <1>4 DEF TypeInv, MemOK
  <1>6. NoDup(q) /\ hcDone \in Seq(Ptr) /\ t \in Ptr
    BY <1>2, <1>3, <1>4, Apart DEF TypeInv, HcOK
  <1>7. Range(Tail(q)) = Range(q) \ {t} /\ t \in Range(q)
    BY <1>3, <1>4, <1>6, NoDupTail
  <1>8. Range(hcDone') = Range(hcDone) \cup {t}
    <2>1. NoDup(hcDone) /\ t \notin Range(hcDone)
      BY <1>1, <1>2, <1>7, Apart, TdSets
    <2>2. Range(<<t>> \o hcDone) = Range(hcDone) \cup {t}
      BY <1>6, <2>1, NoDupCons
    <2> QED BY <1>4, <2>2
  <1>9. ASSUME NEW x, x \in Queued, x # t PROVE x \in Queued'
    <2>1. PICK u \in Units : x \in Range(queue[u])
      BY <1>9, QueuedNext, Zenon
    <2>2. x \in Range(queue'[u])
      BY <1>2, <1>5, <1>7, <1>9, <2>1
    <2> QED BY <2>2, QueuedNext, Zenon
  <1> QED BY <1>4, <1>8, <1>9, TdSets, TdSetsNext

LEMMA UnitsHc ==
    ASSUME TypeInv, OwnInv, ReqInv, UnitsInv, Hc
    PROVE  UnitsInv'
  <1>1. UNCHANGED <<used, info, mtds, work, med>>
    BY Zenon DEF Hc, HcFetch, HcNak, HcRetire, HcFrame, mem, isr, main
  <1>2. AllTds \subseteq AllTds'
    <2>1. CASE HcFetch \/ HcNak
      <3>1. UNCHANGED <<queue, hcDone, hccaDone>>
        BY <2>1, Zenon DEF HcFetch, HcNak, mem
      <3> QED BY <1>1, <3>1, ChainsStay DEF OwnInv
    <2>2. CASE HcFrame
      <3>1. UNCHANGED queue
        BY <2>2, Zenon DEF HcFrame, mem
      <3>2. \/ ~wdh /\ hccaDone' = hcDone /\ hcDone' = <<>>
            \/ UNCHANGED <<hccaDone, hcDone>>
        BY <2>2, Zenon DEF HcFrame
      <3>3. Range(hcDone') \cup Range(hccaDone') = Range(hcDone) \cup Range(hccaDone)
        BY <3>2, NoDupEmpty, Zenon DEF ReqInv, HandInv
      <3>4. Queued' = Queued
        BY <3>1 DEF Queued
      <3> QED BY <1>1, <3>3, <3>4, TdSets, TdSetsNext
    <2> QED BY <2>1, <2>2, RetiredTds DEF Hc
  <1> QED BY <1>1, <1>2, UnitsSame

\* ohci_int_xfer, when it succeeds.
LEMMA UnitsIntOk ==
    ASSUME TypeInv, RemoveInv, OwnInv, QuitInv, OwnerInv, QueuesInv, UnitsInv, NEW r \in Utrs,
           NEW e \in Eps, Kind[e] = "int", e # mep \/ ~Quitting, ~IntXferFails(e), IntXferOk(r, e),
           UNCHANGED <<mtds, hcDone, hccaDone, work, med>>
    PROVE  UnitsInv'
  <1>a. used \in [Units -> BOOLEAN] /\ info \in [Units -> Eps \cup {None}]
    BY DEF TypeInv, MemOK
  <1>1. PICK ed \in Units, x \in Units, n \in Units : Filled(r, e, ed, x, n)
    BY IntXferFills
  <1>2. AllTds' = AllTds \cup {x, n}
    <2>1. Queued' = Queued \cup {x, n}
      BY <1>1, FilledTds
    <2> QED BY <2>1, TdSets, TdSetsNext
  <1>3. info'[ed] = e /\ \A u \in Units : info[u] \in Eps => info'[u] \in Eps
    BY <1>a, <1>1 DEF Filled
  <1>4. \A u \in Units : used'[u] => used[u] \/ u \in AllTds' \/ info'[u] \in Eps
    <2>1. ASSUME NEW u \in Units, used'[u], ~used[u] PROVE u \in AllTds' \/ info'[u] \in Eps
      <3>1. CASE EdOf(e) # {}
        <4>1. u = IntNew
          BY <2>1, <3>1 DEF IntXferOk, Taken
        <4>2. used' = Taken(used, IntNew)
          BY <3>1 DEF IntXferOk
        <4>3. used'[n] /\ ~used[n]
          BY <1>1 DEF Filled
        <4>4. n = IntNew
          BY <4>2, <4>3 DEF Taken
        <4> QED BY <1>2, <4>1, <4>4
      <3>2. CASE EdOf(e) = {}
        <4>1. PICK m, d, t : m = IntNew /\ d = IntNewEd /\ t = IntNewTd
          OBVIOUS
        <4>2. /\ used' = Taken(Taken(Taken(used, m), d), t)
              /\ info' = [info EXCEPT ![d] = e]
              /\ queue' = [queue EXCEPT ![d] = <<t, m>>]
          BY <3>2, <4>1 DEF IntXferOk
        <4>3. u = m \/ u = d \/ u = t
          BY <2>1, <4>2 DEF Taken
        <4>4. d \in Units
          <5>1. PICK us \in [Units -> BOOLEAN] : us = Taken(used, IntNew)
            BY <1>a DEF Taken
          <5>2. \A v \in Units : used[v] => us[v]
            BY <1>a, <5>1 DEF Taken
          <5>3. d = FirstFree(us) /\ d # 0
            BY <3>2, <4>1, <5>1 DEF IntNewEd, IntXferFails
          <5> QED BY <5>2, <5>3, FreshUnit
        <4>5. info'[d] = e /\ queue'[d] = <<t, m>>
          BY <1>a, <4>2, <4>4 DEF TypeInv, MemOK
        <4>6. {t, m} \subseteq AllTds'
          <5>1. Range(queue'[d]) = {t, m}
            BY <4>5, LastPair
          <5>2. Range(queue'[d]) \subseteq Queued'
            BY <4>4, QueuedNext
          <5> QED BY <5>1, <5>2, TdSetsNext
        <4> QED BY <4>3, <4>5, <4>6
      <3> QED BY <3>1, <3>2
    <2> QED BY <2>1
  <1>5. PICK Gone : Gone = {}
    OBVIOUS
  <1> QED BY <1>2, <1>3, <1>4, <1>5, UnitsStep

LEMMA UnitsIsr ==
    ASSUME NoRace, TypeInv, RemoveInv, OwnInv, QuitInv, ReqInv, UnitsInv, ~Dropped, Isr
    PROVE  UnitsInv'
  <1>0. UNCHANGED <<mtds, med>>
    BY Zenon DEF Isr, IsrEnter, RemoveEd, RemoveDone, TakeDoneList, TdDone, TdDoneResubmit, TdFree,
                 IsrExit, main
  <1>1. CASE IsrEnter \/ RemoveDone \/ IsrExit \/ TdDone
    <2>1. UNCHANGED <<used, info, queue, hcDone, hccaDone, work>>
      BY <1>1, Zenon DEF IsrEnter, RemoveDone, IsrExit, TdDone, mem, hc
    <2>2. AllTds' = AllTds
      BY <1>0, <2>1, ChainsStay DEF OwnInv
    <2> QED BY <1>0, <2>1, <2>2, UnitsSame
  <1>2. CASE TakeDoneList
    <2>1. UNCHANGED <<used, info, queue, hcDone>> /\ ipc = "wdh"
      BY <1>2, Zenon DEF TakeDoneList, mem
    <2>2. PICK s \in Seq(Ptr) : s = hccaDone /\ work' = Reverse(s)
      BY <1>2 DEF TakeDoneList, TypeInv, HcOK
    <2>3. Range(work') = Range(hccaDone)
      BY <2>2, Apart, NoDupReverse
    <2>4. Range(work) = {}
      BY <2>1, NoDupEmpty DEF ReqInv, HandInv
    <2>5. Queued' = Queued
      BY <2>1 DEF Queued
    <2>6. AllTds \subseteq AllTds'
      BY <1>0, <2>1, <2>3, <2>4, <2>5, TdSets, TdSetsNext
    <2> QED BY <1>0, <2>1, <2>6, UnitsSame
  <1>3. CASE RemoveEd
    <2>a. PICK ed \in Units : FreeUnits({ed} \cup Range(queue[ed]))
      BY <1>3, RemovedEd
    <2>1. PICK S : S = {ed} \cup Range(queue[ed])
      OBVIOUS
    <2>2. /\ \A u \in Units : used'[u] => used[u] /\ u \notin S
          /\ \A u \in Units : u \notin S => info'[u] = info[u] /\ queue'[u] = queue[u]
      BY <2>a, <2>1 DEF FreeUnits
    <2>3. UNCHANGED <<hcDone, hccaDone, work>>
      BY <1>3 DEF RemoveEd, hc, isr
    <2>4. \A t \in Queued : t \notin S => t \in Queued'
      <3>1. ASSUME NEW t \in Queued, t \notin S PROVE t \in Queued'
        <4>1. PICK u \in Units : t \in Range(queue[u])
          BY <3>1, QueuedNext, Zenon
        <4>2. u \notin S
          <5>1. u # ed
            BY <2>1, <3>1, <4>1
          <5>2. u \in Range(queue[ed]) => queue[u] = <<>>
            BY TdSets DEF OwnInv, TdsInv, EdsInv, MemInv
          <5> QED BY <2>1, <4>1, <5>1, <5>2, NoDupEmpty
        <4>3. t \in Range(queue'[u])
          BY <2>2, <4>1, <4>2
        <4> QED BY <4>3, QueuedNext, Zenon
      <3> QED BY <3>1
    <2>5. \A u \in Units \ S : u \in AllTds => u \in AllTds'
      BY <1>0, <2>3, <2>4, TdSets, TdSetsNext
    <2> QED BY <1>0, <2>2, <2>5, UnitsStep
  <1>4. CASE TdDoneResubmit
    <2>1. PICK td, r, e : /\ td = Head(work) /\ r = tdUtr[td] /\ e = utrEp[r]
                          /\ CallsResubmit(td, r) /\ ipc = "td_done" /\ work # <<>>
                          /\ ~IntXferFails(e) /\ IntXferOk(r, e)
      BY <1>4 DEF TdDoneResubmit, Dropped
    <2>2. r \in Utrs
      BY <2>1, AtHand
    <2>3. e \in Eps /\ Kind[e] = "int" /\ (e # mep \/ ~Quitting)
      BY <2>1, ResubmitQuit DEF CallsResubmit
    <2>4. UNCHANGED <<hcDone, hccaDone, work>>
      BY <1>4 DEF TdDoneResubmit, hc
    <2> QED BY <1>0, <2>1, <2>2, <2>3, <2>4, UnitsIntOk DEF ReqInv
  <1>5. CASE TdFree
    <2>a. PICK w \in Seq(Ptr) : w = work /\ w # <<>> /\ NoDup(w)
      BY <1>5, Apart DEF TdFree, TypeInv, IsrOK
    <2>1. PICK td : td = Head(w)
      OBVIOUS
    <2>2. FreeUnits({td}) /\ work' = Tail(w) /\ UNCHANGED <<hcDone, hccaDone>>
      BY <1>5, <2>a, <2>1 DEF TdFree, Reclaimed, hc
    <2>3. Range(work') = Range(work) \ {td}
      BY <2>a, <2>1, <2>2, NoDupTail
    <2>4. queue[td] = <<>>
      BY <2>a, <2>1, WorkHead DEF OwnInv, EdsInv, MemInv
    <2>5. /\ \A u \in Units : used'[u] => used[u] /\ u # td
          /\ \A u \in Units : u # td => info'[u] = info[u]
          /\ \A u \in Units : Range(queue[u]) \subseteq Range(queue'[u])
      BY <2>2, <2>4, NoDupEmpty DEF FreeUnits
    <2>6. Queued \subseteq Queued'
      <3>1. ASSUME NEW t \in Queued PROVE t \in Queued'
        <4>1. PICK u \in Units : t \in Range(queue[u])
          BY <3>1, QueuedNext, Zenon
        <4>2. t \in Range(queue'[u])
          BY <2>5, <4>1
        <4> QED BY <4>2, QueuedNext, Zenon
      <3> QED BY <3>1
    <2>7. \A u \in Units \ {td} : u \in AllTds => u \in AllTds'
      BY <1>0, <2>2, <2>3, <2>6, TdSets, TdSetsNext
    <2>8. PICK Gone : Gone = {td}
      OBVIOUS
    <2> QED BY <1>0, <2>5, <2>7, <2>8, UnitsStep
  <1> QED BY <1>1, <1>2, <1>3, <1>4, <1>5 DEF Isr

\* The call returns with nothing in its hands.
LEMMA UnitsEnd ==
    ASSUME UnitsInv, mtds = <<>>, UNCHANGED <<used, info, queue, hcDone, hccaDone, work>>,
           UNCHANGED med \/ med = 0
    PROVE  UnitsInv'
  <1>1. AllTds \subseteq AllTds'
    <2>1. Queued' = Queued /\ Range(mtds) = {}
      BY NoDupEmpty DEF Queued
    <2> QED BY <2>1, TdSets, TdSetsNext
  <1>2. \A u \in Units : u = med => u = med'
    BY DEF Units
  <1> QED BY <1>1, <1>2, UnitsSame

\* The steps of a submission.
LEMMA UnitsTake ==
    ASSUME TypeInv, OwnInv, UnitsInv, ~Exhausted, CtrlAllocTd \/ BulkAllocTd
    PROVE  UnitsInv'
  <1>1. PICK u : u = FirstFree(used)
    OBVIOUS
  <1>2. UNCHANGED <<info, queue, hcDone, hccaDone, work, med>> /\ mtds' = Append(mtds, u)
    BY <1>1 DEF CtrlAllocTd, BulkAllocTd, SyncUnch, hc, isr
  <1>3. u # 0
    BY <1>1 DEF CtrlAllocTd, BulkAllocTd, Exhausted
  <1>4. u \in Units /\ u \notin AllTds
    BY <1>1, <1>3, FreshUnit DEF TypeInv, MemOK
  <1>5. used' = Taken(used, u)
    BY <1>1, <1>3 DEF CtrlAllocTd, BulkAllocTd
  <1>6. Range(mtds') = Range(mtds) \cup {u}
    <2>1. PICK s \in Seq(Ptr) : s = mtds
      BY DEF TypeInv, MainOK
    <2>2. NoDup(s) /\ u \in Ptr /\ u \notin Range(s)
      BY <1>4, <2>1, Apart, TdSets DEF Ptr, Units
    <2>3. PICK a : a = Append(s, u)
      OBVIOUS
    <2>4. Range(a) = Range(s) \cup {u}
      BY <2>2, <2>3, NoDupAppend
    <2> QED BY <1>2, <2>1, <2>3, <2>4
  <1>7. AllTds' = AllTds \cup {u}
    <2>1. Queued' = Queued
      BY <1>2 DEF Queued
    <2> QED BY <1>2, <1>6, <2>1, TdSets, TdSetsNext
  <1>8. \A v \in Units : used'[v] => used[v] \/ v = u
    BY <1>5 DEF Taken
  <1>9. PICK Gone : Gone = {}
    OBVIOUS
  <1> QED BY <1>2, <1>7, <1>8, <1>9, UnitsStep

LEMMA UnitsCtrlEd ==
    ASSUME TypeInv, OwnInv, UnitsInv, CtrlEd
    PROVE  UnitsInv'
  <1>1. UNCHANGED <<hcDone, hccaDone, work>> /\ mpc = "ctrl_td"
    BY DEF CtrlEd, SyncUnch, hc, isr
  <1>2. \A u \in Units : u # med
    BY <1>1 DEF OwnInv, EdsInv, MedInv, Units
  <1>3. CASE FreeUnits(Range(mtds)) /\ SubmitFails
    <2>1. PICK S : S = Range(mtds)
      OBVIOUS
    <2>2. /\ \A u \in Units : used'[u] => used[u] /\ u \notin S
          /\ \A u \in Units : u \notin S => info'[u] = info[u]
      BY <1>3, <2>1 DEF FreeUnits
    <2>3. \A u \in Units : queue'[u] = queue[u]
      <3>1. \A u \in Units : u \in S => queue[u] = <<>>
        BY <2>1, HeldTds DEF OwnInv, EdsInv, MemInv
      <3> QED BY <1>3, <2>1, <3>1 DEF FreeUnits
    <2>4. Queued \subseteq Queued'
      BY <2>3, QueuedNext
    <2>5. \A u \in Units \ S : u \in AllTds => u \in AllTds'
      BY <1>1, <2>1, <2>4, TdSets, TdSetsNext
    <2> QED BY <1>2, <2>2, <2>5, UnitsStep
  <1>4. ASSUME NEW u, u = FirstFree(used), UNCHANGED <<info, queue, mtds>>,
               \/ used' = Taken(used, u) /\ med' = u
               \/ used' = used
        PROVE  UnitsInv'
    <2>1. AllTds' = AllTds
      BY <1>1, <1>4, ChainsStay DEF OwnInv
    <2>2. \A v \in Units : used'[v] => used[v] \/ v = med'
      BY <1>4 DEF Taken
    <2>3. PICK Gone : Gone = {}
      OBVIOUS
    <2> QED BY <1>2, <1>4, <2>1, <2>2, <2>3, UnitsStep
  <1>5. \/ FreeUnits(Range(mtds)) /\ SubmitFails
        \/ \E u : /\ u = FirstFree(used) /\ UNCHANGED <<info, queue, mtds>>
                  /\ \/ used' = Taken(used, u) /\ med' = u
                     \/ used' = used
    BY DEF CtrlEd
  <1> QED BY <1>3, <1>4, <1>5

LEMMA UnitsBulkEd ==
    ASSUME TypeInv, OwnInv, ReqInv, UnitsInv, BulkEd
    PROVE  UnitsInv'
  <1>1. UNCHANGED <<queue, hcDone, hccaDone, work>> /\ mpc = "bulk_ed"
    BY DEF BulkEd, SyncUnch, hc, isr
  <1>2. mtds = <<>> /\ med = 0
    BY <1>1 DEF ReqInv, CallInv, OwnInv, EdsInv, MedInv
  <1>3. mep \in Eps
    BY <1>1 DEF TypeInv
  <1>4. AllTds \subseteq AllTds'
    <2>1. Queued' = Queued /\ Range(mtds) = {}
      BY <1>1, <1>2, NoDupEmpty DEF Queued
    <2> QED BY <1>1, <2>1, TdSets, TdSetsNext
  <1>5. ASSUME UNCHANGED <<used, info>> PROVE UnitsInv'
    BY <1>2, <1>4, <1>5, UnitsSame DEF Units
  <1>6. ASSUME NEW u, used' = Taken(used, u), info' = [info EXCEPT ![u] = mep]
        PROVE  UnitsInv'
    <2>1. \A v \in Units : info'[v] = IF v = u THEN mep ELSE info[v]
      BY <1>6 DEF TypeInv, MemOK
    <2>2. \A v \in Units : used'[v] => used[v] \/ v = u
      BY <1>6 DEF Taken
    <2>3. \A v \in Units : v # med
      BY <1>2 DEF Units
    <2>4. PICK Gone : Gone = {}
      OBVIOUS
    <2> QED BY <1>3, <1>4, <2>1, <2>2, <2>3, <2>4, UnitsStep
  <1>7. \/ UNCHANGED <<used, info>>
        \/ \E u : used' = Taken(used, u) /\ info' = [info EXCEPT ![u] = mep]
    BY Zenon DEF BulkEd
  <1> QED BY <1>5, <1>6, <1>7

LEMMA UnitsLinks ==
    ASSUME TypeInv, OwnInv, QuitInv, ReqInv, UnitsInv, CtrlLink \/ BulkLink
    PROVE  UnitsInv'
  <1>0. 0 \notin Units /\ None \notin Eps
    BY ConstAssumption DEF Units
  <1>1. /\ UNCHANGED <<used, hcDone, hccaDone, work>> /\ mpc \in {"ctrl_link", "bulk_td"}
        /\ queue' = [queue EXCEPT ![med] = mtds]
        /\ info' = info \/ info' = [info EXCEPT ![med] = mep]
    BY DEF CtrlLink, BulkLink, SyncUnch, hc, isr
  <1>2. PICK ed \in Units : ed = med
    BY <1>1 DEF TypeInv
  <1>3. mep \in Eps
    BY <1>1 DEF TypeInv
  <1>4. info'[ed] \in Eps /\ \A u \in Units : info[u] \in Eps => info'[u] \in Eps
    <2>1. CASE CtrlLink
      BY <1>2, <1>3, <2>1 DEF CtrlLink, TypeInv, MemOK
    <2>2. CASE BulkLink
      BY <1>0, <1>2, <1>3, <2>2 DEF BulkLink, OwnInv, EdsInv, MedInv, FreshEd
    <2> QED BY <2>1, <2>2
  <1>5. queue[ed] = <<>>
    <2>1. CASE info[ed] = None
      BY <2>1 DEF OwnInv, EdsInv, MemInv
    <2>2. CASE info[ed] = mep
      <3>1. ~IsInt(ed)
        BY <1>1, <2>2 DEF IsInt, OwnInv, EdsInv, KindInv
      <3> QED BY <1>1, <1>3, <2>2, <3>1, NoneQueued DEF ReqInv
    <2> QED BY <1>0, <1>2, <2>1, <2>2 DEF OwnInv, EdsInv, MedInv, FreshEd
  <1>6. queue'[ed] = mtds /\ \A u \in Units \ {ed} : queue'[u] = queue[u]
    BY <1>1, <1>2 DEF TypeInv, MemOK
  <1>7. Range(mtds) \subseteq Queued' /\ Queued \subseteq Queued'
    <2>1. Range(mtds) \subseteq Queued'
      BY <1>6, QueuedNext
    <2>2. ASSUME NEW t \in Queued PROVE t \in Queued'
      <3>1. PICK u \in Units : t \in Range(queue[u])
        BY <2>2, QueuedNext, Zenon
      <3>2. u # ed
        BY <1>5, <3>1, NoDupEmpty
      <3> QED BY <1>6, <3>1, <3>2, QueuedNext
    <2> QED BY <2>1, <2>2
  <1>8. AllTds \subseteq AllTds'
    BY <1>1, <1>7, TdSets, TdSetsNext
  <1>9. PICK Gone : Gone = {}
    OBVIOUS
  <1> QED BY <1>1, <1>2, <1>4, <1>8, <1>9, UnitsStep

\* A pipe whose owner knows a request has an ED to be found.
LEMMA SlotEd ==
    ASSUME TypeInv, RemoveInv, OwnInv, QuitInv, ReqInv, mpc = "idle", NEW e \in Eps, slot[e] # None
    PROVE  EdOf(e) # {}
  <1>1. ~Quitting /\ med = 0
    BY DEF Quitting, OwnInv, EdsInv, MedInv
  <1>2. hwPipe[e] # 0 /\ Kind[e] = "int"
    BY DEF ReqInv, SlotInv
  <1>3. hwPipe[e] \in Units /\ info[hwPipe[e]] = e
    BY <1>1, <1>2, PipeFacts DEF Settled, Quitting
  <1> QED BY <1>1, <1>2, <1>3, NoEd

LEMMA UnitsInt ==
    ASSUME TypeInv, RemoveInv, OwnInv, QuitInv, ReqInv, UnitsInv, ~Spilled, IntStart \/ HubResubmit
    PROVE  UnitsInv'
  <1>1. UNCHANGED <<mtds, med, hcDone, hccaDone, work>> /\ mpc = "idle"
    BY Zenon DEF IntStart, HubResubmit, main, hc, isr
  <1>2. PICK e \in Eps, r \in Utrs :
           /\ Kind[e] = "int"
           /\ (IntXferFails(e) /\ IntXferFail(e)) \/ (~IntXferFails(e) /\ IntXferOk(r, e))
    <2>1. CASE IntStart
      BY <2>1 DEF IntStart
    <2>2. CASE HubResubmit
      BY <2>2 DEF HubResubmit, TypeInv, MainOK
    <2> QED BY <2>1, <2>2
  <1>3. CASE ~IntXferFails(e) /\ IntXferOk(r, e)
    BY <1>1, <1>2, <1>3, UnitsIntOk DEF ReqInv, Quitting
  <1>4. CASE IntXferFails(e) /\ IntXferFail(e)
    <2>1. ~(IntNew # 0 /\ IntNewEd = 0)
      BY <1>1, <1>2, <1>4, SlotEd DEF Spilled, IntXferFails
    <2>2. UNCHANGED <<used, info, queue>>
      BY <1>4, <2>1 DEF IntXferFail
    <2>3. AllTds' = AllTds
      BY <1>1, <2>2, ChainsStay DEF OwnInv
    <2> QED BY <1>1, <2>2, <2>3, UnitsSame
  <1> QED BY <1>2, <1>3, <1>4

LEMMA UnitsMain ==
    ASSUME TypeInv, RemoveInv, OwnInv, QuitInv, ReqInv, UnitsInv, ~Exhausted, ~Spilled, Main
    PROVE  UnitsInv'
  <1>1. CASE XferBegin \/ WaitTimeout \/ QuitEp \/ IntStop \/ Quit \/ ArmSf \/ DelayOver
    <2>1. UNCHANGED <<used, info, queue, mtds, med, hcDone, hccaDone, work>>
      BY <1>1, Zenon DEF XferBegin, WaitTimeout, QuitEp, IntStop, Quit, ArmSf, DelayOver, SyncUnch,
                         mem, hc, isr
    <2>2. AllTds' = AllTds
      BY <2>1, ChainsStay DEF OwnInv
    <2> QED BY <2>1, <2>2, UnitsSame
  <1>2. CASE WaitDone \/ QuitDone
    <2>1. UNCHANGED <<used, info, queue, hcDone, hccaDone, work>> /\ mpc \in {"wait", "quit_done"}
      BY <1>2, Zenon DEF WaitDone, QuitDone, SyncUnch, mem, hc, isr
    <2>2. mtds = <<>> /\ med = 0
      BY <2>1 DEF ReqInv, CallInv, OwnInv, EdsInv, MedInv
    <2> QED BY <2>1, <2>2, UnitsEnd
  <1>3. ~BulkMemOut
    BY DEF BulkMemOut, Exhausted
  <1> QED BY <1>1, <1>2, <1>3, UnitsTake, UnitsCtrlEd, UnitsBulkEd, UnitsLinks, UnitsInt DEF Main

\* No unit is lost: whatever is allocated is an ED that a list, a pipe or the
\* remove list leads to, or a TD on one of the chains, and will go back to the
\* pool.
THEOREM NoUnitLostHolds == NoRace => (Spec /\ []~Starved /\ []~Spilled => []NoUnitLost)
  <1> SUFFICES ASSUME NoRace PROVE Spec /\ []~Starved /\ []~Spilled => []NoUnitLost
    OBVIOUS
  <1>1. Init => UnitsInv
    BY DEF Init, UnitsInv
  <1>2. ASSUME TypeInv, RemoveInv, OwnInv, QuitInv, ReqInv, UnitsInv, ~Starved, ~Spilled, [Next]_vars
        PROVE  UnitsInv'
    <2>1. CASE UNCHANGED vars
      <3>1. UNCHANGED <<used, info, queue, mtds, med, hcDone, hccaDone, work>>
        BY <2>1, Zenon DEF vars, mem, main, hc, isr
      <3>2. AllTds' = AllTds
        BY <1>2, <3>1, ChainsStay DEF OwnInv
      <3> QED BY <1>2, <3>1, <3>2, UnitsSame
    <2> QED BY <1>2, <2>1, UnitsHc, UnitsIsr, UnitsMain DEF Next, Starved
  <1>3. TypeInv /\ RemoveInv /\ OwnInv /\ QuitInv /\ ReqInv /\ UnitsInv => NoUnitLost
    <2> SUFFICES ASSUME TypeInv, RemoveInv, OwnInv, QuitInv, UnitsInv, NEW u \in Units, used[u]
                 PROVE  u \in ActiveEds \cup LiveTds
      BY DEF NoUnitLost
    <2>1. u = med => u \in ActiveEds
      BY DEF ActiveEds, Units
    <2> QED BY <2>1, EdsActive DEF UnitsInv
  <1> QED BY <1>1, <1>2, <1>3, ReqHolds, PTL DEF Spec
=============================================================================
