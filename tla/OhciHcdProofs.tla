--------------------------- MODULE OhciHcdProofs ---------------------------
(* Theorems about OhciHcd, for every pool size, set of endpoints and of    *)
(* requests.                                                               *)
EXTENDS OhciHcd, FiniteSetTheorems, TLAPS

\* The scan for a free unit returns a unit of the pool or the null pointer, and
\* never a unit that is taken.
LEMMA FirstFreeFacts ==
    ASSUME NEW us \in [Units -> BOOLEAN]
    PROVE  /\ FirstFree(us) \in Ptr
           /\ FirstFree(us) # 0 => FirstFree(us) \in Units /\ ~us[FirstFree(us)]
  <1>1. CASE \E u \in Units : IsFirstFree(us, u)
    BY <1>1, ConstAssumption DEF FirstFree, IsFirstFree, Units, Ptr
  <1>2. CASE ~ \E u \in Units : IsFirstFree(us, u)
    BY <1>2, ConstAssumption DEF FirstFree, Ptr
  <1> QED BY <1>1, <1>2

-----------------------------------------------------------------------------
(* Type correctness, one part per group of variables.                      *)

MemOK ==
    /\ used \in [Units -> BOOLEAN]
    /\ info \in [Units -> Eps \cup {None}]
    /\ skip \in [Units -> BOOLEAN]
    /\ halt \in [Units -> BOOLEAN]
    /\ queue \in [Units -> Seq(Ptr)]
    /\ tdUtr \in [Units -> Utrs \cup {None}]
    /\ failed \subseteq Ptr
LinksOK ==
    /\ list \in [Kinds -> SUBSET Units]
    /\ removeList \in Seq(Units)
    /\ hwPipe \in [Eps -> Ptr]
UtrsOK ==
    /\ alive \in [Utrs -> BOOLEAN]
    /\ utrEp \in [Utrs -> Eps \cup {None}]
    /\ tdCnt \in [Utrs -> Int]
    /\ status \in [Utrs -> {"ok", "error", "abort"}]
    /\ done \in [Utrs -> BOOLEAN]
HcOK ==
    /\ hcEd \in Ptr
    /\ hcDone \in Seq(Ptr) /\ hccaDone \in Seq(Ptr)
    /\ wdh \in BOOLEAN /\ sf \in BOOLEAN /\ sfEn \in BOOLEAN
IsrOK ==
    /\ ipc \in {"idle", "remove", "wdh", "td_done", "td_free"}
    /\ isrWdh \in BOOLEAN
    /\ work \in Seq(Ptr)
MainOK ==
    /\ mpc \in {"idle", "ctrl_td", "ctrl_link", "bulk_ed", "bulk_td", "wait",
                "quit", "arm", "delay", "quit_done"}
    /\ mu \in Utrs \cup {None} /\ mep \in Eps \cup {None}
    /\ mtds \in Seq(Ptr) /\ med \in Ptr /\ mn \in Nat /\ frames \in Nat
    /\ slot \in [Eps -> Utrs \cup {None}]

\* What makes the types inductive: a TD is being freed only from a list that
\* has one, a call in progress has its endpoint, and one that is about to fill
\* an ED has got it.
TypeInv ==
    /\ MemOK /\ LinksOK /\ UtrsOK /\ HcOK /\ IsrOK /\ MainOK
    /\ ipc = "td_free" => work # <<>>
    /\ mpc # "idle" => mep \in Eps
    /\ mpc \in {"ctrl_link", "bulk_td"} => med \in Units

LEMMA TypeInvImpliesTypeOK == TypeInv => TypeOK
  BY DEF TypeInv, TypeOK, MemOK, LinksOK, UtrsOK, HcOK, IsrOK, MainOK

LEMMA InitType == Init => TypeInv
  <1> SUFFICES ASSUME Init PROVE TypeInv
    OBVIOUS
  <1> USE ConstAssumption DEF Init
  <1>1. MemOK   BY DEF MemOK, Units, Ptr
  <1>2. LinksOK BY DEF LinksOK, Ptr
  <1>3. UtrsOK  BY DEF UtrsOK
  <1>a. 0 \in Ptr /\ <<>> \in Seq(Ptr)
    BY DEF Ptr
  <1>4. HcOK
    <2>1. hcEd \in Ptr /\ hcDone \in Seq(Ptr) /\ hccaDone \in Seq(Ptr)
      BY <1>a
    <2>2. wdh \in BOOLEAN /\ sf \in BOOLEAN /\ sfEn \in BOOLEAN
      BY Zenon
    <2> QED BY <2>1, <2>2 DEF HcOK
  <1>5. IsrOK
    <2>1. ipc \in {"idle", "remove", "wdh", "td_done", "td_free"} /\ work \in Seq(Ptr)
      BY <1>a
    <2>2. isrWdh \in BOOLEAN
      BY Zenon
    <2> QED BY <2>1, <2>2 DEF IsrOK
  <1>6. MainOK  BY DEF MainOK, Ptr
  <1> QED BY <1>1, <1>2, <1>3, <1>4, <1>5, <1>6 DEF TypeInv

\* Giving units back keeps the memory well typed.
LEMMA FreeUnitsType ==
    ASSUME MemOK, NEW S, FreeUnits(S)
    PROVE  MemOK'
  BY DEF MemOK, FreeUnits

\* A group whose variables do not change stays well typed.
LEMMA Keep ==
    ASSUME TypeInv
    PROVE  /\ UNCHANGED mem => MemOK'
           /\ UNCHANGED links => LinksOK'
           /\ UNCHANGED utrs => UtrsOK'
           /\ UNCHANGED hc => HcOK'
           /\ UNCHANGED isr => IsrOK'
           /\ UNCHANGED main => MainOK'
  <1>1. UNCHANGED mem => MemOK'
    BY DEF TypeInv, MemOK, mem
  <1>2. UNCHANGED links => LinksOK'
    BY DEF TypeInv, LinksOK, links
  <1>3. UNCHANGED utrs => UtrsOK'
    BY DEF TypeInv, UtrsOK, utrs
  <1>4. UNCHANGED hc => HcOK'
    BY Zenon DEF TypeInv, HcOK, hc
  <1>5. UNCHANGED isr => IsrOK'
    BY Zenon DEF TypeInv, IsrOK, isr
  <1>6. UNCHANGED main => MainOK'
    BY DEF TypeInv, MainOK, main
  <1> QED BY <1>1, <1>2, <1>3, <1>4, <1>5, <1>6

LEMMA HcType ==
    ASSUME TypeInv, Hc
    PROVE  TypeInv'
  <1> USE ConstAssumption
  <1>1. CASE HcFetch
    <2>1. hcEd' \in Ptr
      BY <1>1 DEF HcFetch, Units, Ptr
    <2>2. HcOK'
      BY <1>1, <2>1, Zenon DEF HcFetch, TypeInv, HcOK
    <2>3. MemOK' /\ LinksOK' /\ UtrsOK' /\ IsrOK' /\ MainOK'
      BY <1>1, Keep, Zenon DEF HcFetch
    <2> QED BY <1>1, <2>2, <2>3, Zenon DEF HcFetch, TypeInv, isr, main
  <1>2. CASE HcNak
    <2>1. hcEd' \in Ptr
      BY <1>2 DEF HcNak, Ptr
    <2>2. HcOK'
      BY <1>2, <2>1, Zenon DEF HcNak, TypeInv, HcOK
    <2>3. MemOK' /\ LinksOK' /\ UtrsOK' /\ IsrOK' /\ MainOK'
      BY <1>2, Keep, Zenon DEF HcNak
    <2> QED BY <1>2, <2>2, <2>3, Zenon DEF HcNak, TypeInv, isr, main
  <1>3. CASE HcRetire
    <2>1. hcEd \in Units /\ queue[hcEd] \in Seq(Ptr) /\ queue[hcEd] # <<>>
      BY <1>3 DEF HcRetire, TypeInv, HcOK, MemOK, Units, Ptr
    <2>2. Head(queue[hcEd]) \in Ptr /\ Tail(queue[hcEd]) \in Seq(Ptr)
      BY <2>1
    <2>3. MemOK'
      <3>1. halt' \in [Units -> BOOLEAN] /\ failed' \subseteq Ptr
        BY <1>3, <2>2 DEF HcRetire, TypeInv, MemOK
      <3>2. queue' \in [Units -> Seq(Ptr)]
        BY <1>3, <2>2 DEF HcRetire, TypeInv, MemOK
      <3> QED BY <1>3, <3>1, <3>2 DEF HcRetire, TypeInv, MemOK
    <2>4. hcEd' \in Ptr /\ hcDone' \in Seq(Ptr)
      BY <1>3, <2>2 DEF HcRetire, TypeInv, HcOK, Ptr
    <2>5. HcOK'
      BY <1>3, <2>4, Zenon DEF HcRetire, TypeInv, HcOK
    <2>6. LinksOK' /\ UtrsOK' /\ IsrOK' /\ MainOK'
      BY <1>3, Keep, Zenon DEF HcRetire
    <2> QED BY <1>3, <2>3, <2>5, <2>6, Zenon DEF HcRetire, TypeInv, isr, main
  <1>4. CASE HcFrame
    <2>1. hcDone' \in Seq(Ptr) /\ hccaDone' \in Seq(Ptr) /\ hcEd' \in Ptr
      <3>1. hcDone \in Seq(Ptr) /\ hccaDone \in Seq(Ptr) /\ hcEd \in Ptr
        BY Zenon DEF TypeInv, HcOK
      <3>2. \/ hccaDone' = hcDone /\ hcDone' = <<>>
            \/ hccaDone' = hccaDone /\ hcDone' = hcDone
        BY <1>4, Zenon DEF HcFrame
      <3>3. hcEd' = hcEd
        BY <1>4, Zenon DEF HcFrame
 
      <3>4. <<>> \in Seq(Ptr)
        OBVIOUS
      <3> QED BY <3>1, <3>2, <3>3, <3>4, Zenon
    <2>2. sf' \in BOOLEAN /\ wdh' \in BOOLEAN /\ sfEn' \in BOOLEAN
      BY <1>4, Zenon DEF HcFrame, TypeInv, HcOK
    <2>3. HcOK'
      BY <2>1, <2>2, Zenon DEF HcOK
    <2>4. MainOK'
      BY <1>4 DEF HcFrame, TypeInv, MainOK
    <2>5. MemOK' /\ LinksOK' /\ UtrsOK' /\ IsrOK'
      BY <1>4, Keep, Zenon DEF HcFrame
    <2> QED BY <1>4, <2>3, <2>4, <2>5, Zenon DEF HcFrame, TypeInv, isr
  <1> QED BY <1>1, <1>2, <1>3, <1>4 DEF Hc

\* A count updated for one request is still a count for each of them.
LEMMA ExceptInt ==
    ASSUME NEW f \in [Utrs -> Int], NEW r, NEW v, r \in Utrs => v \in Int
    PROVE  [f EXCEPT ![r] = v] \in [Utrs -> Int]
  <1>1. [f EXCEPT ![r] = v] = [x \in Utrs |-> IF x = r THEN v ELSE f[x]]
    BY Zenon
  <1>2. ASSUME NEW x \in Utrs PROVE (IF x = r THEN v ELSE f[x]) \in Int
    OBVIOUS
  <1> QED BY <1>1, <1>2

\* ohci_int_xfer, from the thread or from a callback, keeps the types.
LEMMA IntXferType ==
    ASSUME TypeInv, NEW r \in Utrs, NEW e \in Eps, UNCHANGED <<failed, removeList>>,
           IntXferFail(e) \/ (~IntXferFails(e) /\ IntXferOk(r, e))
    PROVE  MemOK' /\ LinksOK'
  <1> USE DEF TypeInv
  <1>1. used \in [Units -> BOOLEAN]
    BY DEF MemOK
  <1>2. ASSUME NEW us \in [Units -> BOOLEAN], NEW u
        PROVE  Taken(us, u) \in [Units -> BOOLEAN]
    BY DEF Taken
  <1>3. CASE IntXferFail(e)
    BY <1>1, <1>2, <1>3 DEF IntXferFail, MemOK, LinksOK
  <1>4. CASE ~IntXferFails(e) /\ IntXferOk(r, e) /\ EdOf(e) # {}
    <2> DEFINE ed == CHOOSE u \in EdOf(e) : TRUE
    <2>1. ed \in EdOf(e)
      BY <1>4
    <2>2. ed \in Units
      BY <2>1, ConstAssumption DEF EdOf, LinksOK
    <2>3. IntNew \in Ptr
      BY <1>1, FirstFreeFacts DEF IntNew
    <2> DEFINE td == queue[ed][Len(queue[ed])]
    <2> HIDE DEF ed
    <2>4. /\ used' = Taken(used, IntNew)
          /\ queue' = [queue EXCEPT ![ed] = Append(@, IntNew)]
          /\ tdUtr' = [tdUtr EXCEPT ![td] = r]
          /\ hwPipe' = [hwPipe EXCEPT ![e] = ed]
          /\ UNCHANGED <<info, skip, halt, list>>
      BY <1>4 DEF IntXferOk, ed
    <2> HIDE DEF td
    <2>5. queue' \in [Units -> Seq(Ptr)]
      BY <2>2, <2>3, <2>4 DEF MemOK
    <2>6. tdUtr' \in [Units -> Utrs \cup {None}]
      BY <2>4 DEF MemOK
    <2>7. MemOK'
      BY <1>1, <1>2, <2>4, <2>5, <2>6 DEF MemOK
    <2>8. LinksOK'
      BY <2>2, <2>4 DEF LinksOK, Ptr, Units
    <2> QED BY <2>7, <2>8
  <1>5. CASE ~IntXferFails(e) /\ IntXferOk(r, e) /\ EdOf(e) = {}
    <2>1. Taken(used, IntNew) \in [Units -> BOOLEAN]
      BY <1>1, <1>2
    <2>2. Taken(Taken(used, IntNew), IntNewEd) \in [Units -> BOOLEAN]
      BY <1>2, <2>1
    <2>3. IntNew \in Units /\ IntNewEd \in Units /\ IntNewTd \in Units
      BY <1>1, <1>5, <2>1, <2>2, FirstFreeFacts
         DEF IntNew, IntNewEd, IntNewTd, IntXferFails
    <2>4. /\ used' = Taken(Taken(Taken(used, IntNew), IntNewEd), IntNewTd)
          /\ info' = [info EXCEPT ![IntNewEd] = e]
          /\ queue' = [queue EXCEPT ![IntNewEd] = <<IntNewTd, IntNew>>]
          /\ tdUtr' = [tdUtr EXCEPT ![IntNewTd] = r]
          /\ hwPipe' = [hwPipe EXCEPT ![e] = IntNewEd]
          /\ list' = [list EXCEPT !["int"] = @ \cup {IntNewEd}]
          /\ UNCHANGED <<skip, halt>>
      BY <1>5 DEF IntXferOk
    <2>5. used' \in [Units -> BOOLEAN]
      BY <1>2, <2>2, <2>4
    <2>6. queue' \in [Units -> Seq(Ptr)]
      BY <2>3, <2>4 DEF MemOK, Ptr, Units
    <2>7. MemOK'
      BY <2>3, <2>4, <2>5, <2>6 DEF MemOK
    <2>8. LinksOK'
      BY <2>3, <2>4 DEF LinksOK, Ptr, Units, Kinds
    <2> QED BY <2>7, <2>8
  <1> QED BY <1>3, <1>4, <1>5

\* What remove_ed leaves of a request's td_cnt is an integer.
LEMMA CntAfterRemoveType ==
    ASSUME TypeInv, NEW ed \in Units, NEW r \in Utrs
    PROVE  CntAfterRemove(ed, r) \in Int
  <1>1. queue[ed] \in Seq(Ptr) /\ tdCnt[r] \in Int
    BY DEF TypeInv, MemOK, UtrsOK
  <1>2. IsFiniteSet(1..Len(queue[ed]))
    BY <1>1, FS_Interval
  <1>3. TdsUnder(ed, r) \subseteq 1..Len(queue[ed])
    BY <1>1 DEF TdsUnder
  <1>4. Cardinality(TdsUnder(ed, r)) \in Nat
    BY <1>2, <1>3, FS_Subset, FS_CardinalityType
  <1> QED BY <1>1, <1>4 DEF CntAfterRemove

LEMMA IsrType ==
    ASSUME TypeInv, Isr
    PROVE  TypeInv'
  <1> USE ConstAssumption
  <1>1. CASE IsrEnter
    <2>1. HcOK'
      BY <1>1, Zenon DEF IsrEnter, TypeInv, HcOK
    <2>2. IsrOK'
      BY <1>1, Zenon DEF IsrEnter, TypeInv, HcOK, IsrOK
    <2>3. MemOK' /\ LinksOK' /\ UtrsOK' /\ MainOK'
      BY <1>1, Keep, Zenon DEF IsrEnter
    <2>4. ipc' # "td_free" /\ UNCHANGED <<mpc, mep, med>>
      BY <1>1 DEF IsrEnter, main
    <2> QED BY <2>1, <2>2, <2>3, <2>4, Zenon DEF TypeInv
  <1>2. CASE RemoveEd
    <2>1. MemOK'
      BY <1>2, FreeUnitsType DEF RemoveEd, TypeInv
    <2>2. list' \in [Kinds -> SUBSET Units] /\ removeList' \in Seq(Units) /\ hwPipe' \in [Eps -> Ptr]
      BY <1>2 DEF RemoveEd, TypeInv, LinksOK, Unlinked
    <2>3. UtrsOK'
      <3>0. Head(removeList) \in Units
        BY <1>2 DEF RemoveEd, TypeInv, LinksOK
      <3>1. tdCnt' \in [Utrs -> Int]
        BY <1>2, <3>0, CntAfterRemoveType DEF RemoveEd, TypeInv, UtrsOK
      <3>2. status' \in [Utrs -> {"ok", "error", "abort"}]
        BY <1>2 DEF RemoveEd, TypeInv, UtrsOK
      <3>3. done' \in [Utrs -> BOOLEAN]
        BY <1>2 DEF RemoveEd, TypeInv, UtrsOK
      <3>4. alive' = alive /\ utrEp' = utrEp
        BY <1>2 DEF RemoveEd
      <3> QED BY <3>1, <3>2, <3>3, <3>4 DEF TypeInv, UtrsOK
    <2>4. HcOK' /\ IsrOK' /\ MainOK'
      BY <1>2, Keep, Zenon DEF RemoveEd
    <2>5. ipc' # "td_free" /\ UNCHANGED <<mpc, mep, med>>
      BY <1>2 DEF RemoveEd, isr, main
    <2> QED BY <2>1, <2>2, <2>3, <2>4, <2>5, Zenon DEF TypeInv, LinksOK
  <1>3. CASE RemoveDone
    <2>1. HcOK'
      BY <1>3, Zenon DEF RemoveDone, TypeInv, HcOK
    <2>2. IsrOK'
      BY <1>3, Zenon DEF RemoveDone, TypeInv, IsrOK
    <2>3. MemOK' /\ LinksOK' /\ UtrsOK' /\ MainOK'
      BY <1>3, Keep, Zenon DEF RemoveDone
    <2>4. ipc' # "td_free" /\ UNCHANGED <<mpc, mep, med>>
      BY <1>3 DEF RemoveDone, main
    <2> QED BY <2>1, <2>2, <2>3, <2>4, Zenon DEF TypeInv
  <1>4. CASE TakeDoneList
    <2>1. <<>> \in Seq(Ptr)
      OBVIOUS
    <2>2. hccaDone \in Seq(Ptr)
      BY Zenon DEF TypeInv, HcOK
    <2>3. Reverse(hccaDone) \in Seq(Ptr)
      BY <2>2 DEF Reverse
    <2>4. HcOK'
      BY <1>4, <2>1, Zenon DEF TakeDoneList, TypeInv, HcOK
    <2>5. IsrOK'
      BY <1>4, <2>3, Zenon DEF TakeDoneList, TypeInv, IsrOK
    <2>6. MemOK' /\ LinksOK' /\ UtrsOK' /\ MainOK'
      BY <1>4, Keep, Zenon DEF TakeDoneList
    <2>7. ipc' # "td_free" /\ UNCHANGED <<mpc, mep, med>>
      BY <1>4 DEF TakeDoneList, main
    <2> QED BY <2>4, <2>5, <2>6, <2>7, Zenon DEF TypeInv
  <1>5. CASE TdDone
    <2>1. UtrsOK'
      <3> DEFINE r == tdUtr[Head(work)]
      <3>1. TdDoneCount(Head(work), r) /\ UNCHANGED <<alive, utrEp>>
        BY <1>5 DEF TdDone
      <3> HIDE DEF r
      <3>a. tdCnt \in [Utrs -> Int] /\ tdCnt' = [tdCnt EXCEPT ![r] = @ - 1]
        BY <3>1 DEF TdDoneCount, TypeInv, UtrsOK
      <3>b. r \in Utrs => tdCnt[r] - 1 \in Int
        BY <3>a
      <3>2. tdCnt' \in [Utrs -> Int]
        BY <3>a, <3>b, ExceptInt, Zenon
      <3>3. status' \in [Utrs -> {"ok", "error", "abort"}]
        BY <3>1 DEF TdDoneCount, TypeInv, UtrsOK
      <3>4. done' \in [Utrs -> BOOLEAN]
        BY <3>1 DEF TdDoneCount, TypeInv, UtrsOK
      <3> QED BY <3>1, <3>2, <3>3, <3>4 DEF TypeInv, UtrsOK
    <2>2. IsrOK'
      BY <1>5, Zenon DEF TdDone, TypeInv, IsrOK
    <2>3. MemOK' /\ LinksOK' /\ HcOK' /\ MainOK'
      BY <1>5, Keep, Zenon DEF TdDone
    <2>4. work' # <<>> /\ UNCHANGED <<mpc, mep, med>>
      BY <1>5 DEF TdDone, main
    <2> QED BY <2>1, <2>2, <2>3, <2>4, Zenon DEF TypeInv
  <1>6. CASE TdDoneResubmit
    <2> DEFINE td == Head(work)
               r  == tdUtr[td]
               e  == utrEp[r]
    <2>1. CallsResubmit(td, r)
      BY <1>6 DEF TdDoneResubmit
    <2>2. td \in Units
      BY <1>6, <2>1 DEF TdDoneResubmit, CallsResubmit, TypeInv, IsrOK, Units, Ptr
    <2>3. r \in Utrs
      BY <2>1, <2>2 DEF CallsResubmit, TypeInv, MemOK
    <2>4. e \in Eps
      BY <2>1 DEF CallsResubmit
    <2>5. /\ UNCHANGED <<failed, removeList>>
          /\ IntXferFail(e) \/ (~IntXferFails(e) /\ IntXferOk(r, e))
      BY <1>6 DEF TdDoneResubmit
    <2>6. UtrsOK'
      <3> HIDE DEF r
      <3>a. /\ tdCnt \in [Utrs -> Int]
            /\ tdCnt' \in {[tdCnt EXCEPT ![r] = 0], [tdCnt EXCEPT ![r] = 1]}
        BY <1>6 DEF TdDoneResubmit, TypeInv, UtrsOK, r
      <3>1. tdCnt' \in [Utrs -> Int]
        BY <3>a, ExceptInt
      <3>2. alive' \in [Utrs -> BOOLEAN] /\ done' \in [Utrs -> BOOLEAN]
        BY <1>6 DEF TdDoneResubmit, TypeInv, UtrsOK
      <3>3. utrEp' = utrEp /\ status' = status
        BY <1>6 DEF TdDoneResubmit
      <3> QED BY <3>1, <3>2, <3>3 DEF TypeInv, UtrsOK
    <2>7. MemOK' /\ LinksOK'
      <3> HIDE DEF r, e
      <3> QED BY <2>3, <2>4, <2>5, IntXferType
    <2>8. HcOK' /\ MainOK'
      BY <1>6, Keep, Zenon DEF TdDoneResubmit
    <2>9. IsrOK'
      BY <1>6, Zenon DEF TdDoneResubmit, TypeInv, IsrOK
    <2>10. work' # <<>> /\ UNCHANGED <<mpc, mep, med>>
      BY <1>6 DEF TdDoneResubmit, main
    <2> QED BY <2>6, <2>7, <2>8, <2>9, <2>10, Zenon DEF TypeInv
  <1>7. CASE TdFree
    <2>1. MemOK'
      BY <1>7, FreeUnitsType DEF TdFree, TypeInv
    <2>2. work \in Seq(Ptr) /\ work # <<>>
      BY <1>7, Zenon DEF TdFree, TypeInv, IsrOK
    <2>3. Tail(work) \in Seq(Ptr)
      BY <2>2
    <2>4. IsrOK'
      BY <1>7, <2>3, Zenon DEF TdFree, TypeInv, IsrOK
    <2>5. LinksOK' /\ UtrsOK' /\ HcOK' /\ MainOK'
      BY <1>7, Keep, Zenon DEF TdFree
    <2>6. ipc' # "td_free" /\ UNCHANGED <<mpc, mep, med>>
      BY <1>7 DEF TdFree, main
    <2> QED BY <2>1, <2>4, <2>5, <2>6, Zenon DEF TypeInv
  <1>8. CASE IsrExit
    <2>1. IsrOK'
      BY <1>8, Zenon DEF IsrExit, TypeInv, IsrOK
    <2>2. MemOK' /\ LinksOK' /\ UtrsOK' /\ HcOK' /\ MainOK'
      BY <1>8, Keep, Zenon DEF IsrExit
    <2>3. ipc' # "td_free" /\ UNCHANGED <<mpc, mep, med>>
      BY <1>8 DEF IsrExit, main
    <2> QED BY <2>1, <2>2, <2>3, Zenon DEF TypeInv
  <1> QED
    BY <1>1, <1>2, <1>3, <1>4, <1>5, <1>6, <1>7, <1>8 DEF Isr

\* The client gets its answer: every request in S is back in its pool.
LEMMA ReturnType ==
    ASSUME TypeInv, NEW S, Return(S), UNCHANGED <<slot, frames>>
    PROVE  UtrsOK' /\ MainOK' /\ mpc' = "idle"
  <1>1. UtrsOK'
    BY DEF TypeInv, UtrsOK, Return
  <1>2. mtds' \in Seq(Ptr)
    BY DEF Return
  <1>3. MainOK'
    BY <1>2, ConstAssumption DEF TypeInv, MainOK, Return, Ptr
  <1> QED BY <1>1, <1>3 DEF Return

\* A control or bulk submission that fails.
LEMMA SubmitFailsType ==
    ASSUME TypeInv, mep \in Eps, SubmitFails, UNCHANGED <<slot, frames, list, removeList>>
    PROVE  UtrsOK' /\ MainOK' /\ LinksOK' /\ mpc' = "idle"
  <1>1. /\ hwPipe' = hwPipe \/ hwPipe' = [hwPipe EXCEPT ![mep] = 0]
        /\ Return({mu}) \/ Return({})
    BY DEF SubmitFails
  <1>2. LinksOK'
    BY <1>1, ConstAssumption DEF TypeInv, LinksOK, Ptr
  <1> QED BY <1>1, <1>2, ReturnType

\* Steps of the thread that submit a request.
LEMMA SubmitType ==
    ASSUME TypeInv,
           \/ XferBegin \/ CtrlAllocTd \/ CtrlEd \/ CtrlLink \/ BulkEd
           \/ BulkAllocTd \/ BulkMemOut \/ BulkLink
    PROVE  TypeInv'
  <1> USE ConstAssumption
  <1>a. /\ HcOK' /\ IsrOK' /\ ipc' # "td_free" /\ UNCHANGED <<slot, frames>>
    <2>1. SyncUnch /\ ipc = "idle"
      BY DEF XferBegin, CtrlAllocTd, CtrlEd, CtrlLink, BulkEd, BulkAllocTd,
             BulkMemOut, BulkLink, MainTurn
    <2> QED BY <2>1, Keep, Zenon DEF SyncUnch, isr
  <1>b. used \in [Units -> BOOLEAN] /\ mtds \in Seq(Ptr) /\ mn \in Nat /\ med \in Ptr
    BY DEF TypeInv, MemOK, MainOK
  <1>c. mpc # "idle" => mep \in Eps
    BY DEF TypeInv
  <1>g. mpc \in {"ctrl_link", "bulk_td"} => med \in Units
    BY DEF TypeInv
  <1>d. 0 \in Ptr /\ Units \subseteq Ptr /\ <<>> \in Seq(Ptr)
    BY DEF Ptr, Units
  <1>e. ASSUME NEW us \in [Units -> BOOLEAN], NEW u
        PROVE  Taken(us, u) \in [Units -> BOOLEAN]
    BY DEF Taken
  <1>f. FirstFree(used) \in Ptr /\ (FirstFree(used) # 0 => FirstFree(used) \in Units)
    BY <1>b, FirstFreeFacts
  <1>1. CASE XferBegin
    <2>1. PICK e \in Eps, r \in Utrs :
            /\ alive' = [alive EXCEPT ![r] = TRUE]
            /\ utrEp' = [utrEp EXCEPT ![r] = e]
            /\ mu' = r /\ mep' = e
            /\ \/ mpc' = "ctrl_td" /\ mn' \in {2, 3}
               \/ mpc' = "bulk_ed" /\ mn' \in BulkTds
      BY <1>1 DEF XferBegin
    <2>2. UNCHANGED <<mem, links, tdCnt, status, done, mtds, med>>
      BY <1>1 DEF XferBegin
    <2>3. UtrsOK'
      BY <2>1, <2>2 DEF TypeInv, UtrsOK
    <2>a. mn' \in {2, 3} \/ mn' \in BulkTds
      BY <2>1, Zenon
    <2>b. mn' \in Nat
      <3>1. BulkTds \subseteq Nat
        BY ConstAssumption
      <3>2. 2 \in Nat /\ 3 \in Nat
        OBVIOUS
      <3> QED BY <2>a, <3>1, <3>2, Zenon
    <2>4. MainOK'
      BY <1>a, <2>1, <2>2, <2>b, Zenon DEF TypeInv, MainOK
    <2>5. MemOK' /\ LinksOK'
      BY <2>2, Keep, Zenon
    <2> QED BY <1>a, <2>1, <2>3, <2>4, <2>5, Zenon DEF TypeInv
  <1>2. CASE CtrlAllocTd
    <2> DEFINE u == FirstFree(used)
    <2>1. /\ mpc = "ctrl_td"
          /\ used' = IF u = 0 THEN used ELSE Taken(used, u)
          /\ tdUtr' = IF u = 0 THEN tdUtr ELSE [tdUtr EXCEPT ![u] = mu]
          /\ mtds' = Append(mtds, u)
          /\ UNCHANGED <<info, skip, halt, queue, failed, links, utrs, mpc, mu, mep, med, mn>>
      BY <1>2 DEF CtrlAllocTd
    <2> HIDE DEF u
    <2>2. used' \in [Units -> BOOLEAN]
      BY <1>b, <1>e, <2>1
    <2>3. tdUtr' \in [Units -> Utrs \cup {None}]
      BY <2>1, <1>f DEF TypeInv, MemOK, MainOK, u
    <2>4. MemOK'
      BY <2>1, <2>2, <2>3, Zenon DEF TypeInv, MemOK
    <2>5. mtds' \in Seq(Ptr)
      BY <2>1, <1>b, <1>f DEF u
    <2>6. MainOK'
      BY <1>a, <2>1, <2>5 DEF TypeInv, MainOK
    <2>7. LinksOK' /\ UtrsOK'
      BY <2>1, Keep, Zenon
    <2> QED BY <1>a, <1>c, <2>1, <2>4, <2>6, <2>7, Zenon DEF TypeInv
  <1>3. CASE CtrlEd
    <2>1. mpc = "ctrl_td" /\ mep \in Eps /\ UNCHANGED <<list, removeList>>
      BY <1>3, <1>c DEF CtrlEd
    <2>2. CASE FreeUnits(Range(mtds)) /\ SubmitFails
      BY <1>a, <2>1, <2>2, FreeUnitsType, SubmitFailsType, Zenon DEF TypeInv
    <2>3. CASE /\ ~(hwPipe[mep] = 0 /\ FirstFree(used) = 0)
               /\ used' = IF hwPipe[mep] = 0 THEN Taken(used, FirstFree(used)) ELSE used
               /\ med' = IF hwPipe[mep] = 0 THEN FirstFree(used) ELSE hwPipe[mep]
               /\ mpc' = "ctrl_link"
               /\ UNCHANGED <<info, skip, halt, queue, tdUtr, failed, hwPipe, utrs,
                              mu, mep, mtds, mn>>
      <3>1. used' \in [Units -> BOOLEAN]
        BY <1>b, <1>e, <2>3
      <3>2. MemOK'
        BY <2>3, <3>1, Zenon DEF TypeInv, MemOK
      <3>a. med' \in Ptr
        BY <1>f, <2>1, <2>3 DEF TypeInv, LinksOK
      <3>b. med' \in Units
        BY <2>1, <2>3, <1>f DEF TypeInv, LinksOK, Units, Ptr
      <3>3. MainOK'
        BY <1>a, <2>3, <3>a, Zenon DEF TypeInv, MainOK
      <3>4. LinksOK' /\ UtrsOK'
        BY <2>1, <2>3, Keep, Zenon DEF links
      <3> QED BY <1>a, <2>1, <2>3, <3>b, <3>2, <3>3, <3>4, Zenon DEF TypeInv
    <2> QED BY <1>3, <2>2, <2>3, Zenon DEF CtrlEd
  <1>4. CASE CtrlLink
    <2>1. /\ mpc = "ctrl_link" /\ mpc' = "wait" /\ mep' = mep /\ mu' = mu
          /\ info' = [info EXCEPT ![med] = mep]
          /\ skip' = [skip EXCEPT ![med] = FALSE]
          /\ halt' = [halt EXCEPT ![med] = FALSE]
          /\ queue' = [queue EXCEPT ![med] = mtds]
          /\ tdCnt' = [tdCnt EXCEPT ![mu] = mn]
          /\ hwPipe' = [hwPipe EXCEPT ![mep] = med]
          /\ list' = [list EXCEPT !["ctrl"] = {med}]
          /\ mtds' = <<>> /\ med' = 0 /\ mn' = 0
          /\ UNCHANGED <<used, tdUtr, failed, removeList, alive, utrEp, status, done>>
      BY <1>4 DEF CtrlLink, CtrlTdCnt
    <2>a. med \in Units /\ mep \in Eps /\ mn \in Int
      BY <1>b, <2>1, <1>c, <1>g
    <2>2. MemOK'
      BY <1>b, <2>a, <2>1 DEF TypeInv, MemOK
    <2>3. tdCnt' \in [Utrs -> Int]
      <3>1. tdCnt \in [Utrs -> Int]
        BY DEF TypeInv, UtrsOK
      <3> QED BY <2>a, <2>1, <3>1, ExceptInt, Zenon
    <2>4. UtrsOK'
      BY <2>1, <2>3, Zenon DEF TypeInv, UtrsOK
    <2>5. LinksOK'
      BY <2>a, <2>1, <1>b DEF TypeInv, LinksOK, Kinds
    <2>6. MainOK'
      BY <1>a, <1>d, <2>1, Zenon DEF TypeInv, MainOK
    <2> QED BY <1>a, <1>c, <2>1, <2>2, <2>4, <2>5, <2>6, Zenon DEF TypeInv
  <1>5. CASE BulkEd
    <2> DEFINE u == FirstFree(used)
    <2>1. mpc = "bulk_ed" /\ mep \in Eps /\ u \in Ptr /\ (u # 0 => u \in Units)
      BY <1>5, <1>c, <1>f DEF BulkEd
    <2>2. UNCHANGED <<skip, halt, queue, tdUtr, failed, list, removeList>>
      BY <1>5 DEF BulkEd
    <2> HIDE DEF u
    <2>3. CASE SubmitFails /\ UNCHANGED <<used, info>>
      <3>1. MemOK'
        BY <2>2, <2>3, Keep, Zenon DEF mem
      <3> QED BY <1>a, <2>1, <2>2, <2>3, <3>1, SubmitFailsType, Zenon DEF TypeInv
    <2>4. CASE /\ u # 0
               /\ used' = Taken(used, u)
               /\ info' = [info EXCEPT ![u] = mep]
               /\ hwPipe' = [hwPipe EXCEPT ![mep] = u]
               /\ med' = u /\ mpc' = "bulk_td"
               /\ UNCHANGED <<utrs, mu, mep, mtds, mn>>
      <3>1. used' \in [Units -> BOOLEAN]
        BY <1>b, <1>e, <2>4
      <3>2. info' \in [Units -> Eps \cup {None}] /\ hwPipe' \in [Eps -> Ptr]
        BY <2>1, <2>4 DEF TypeInv, MemOK, LinksOK
      <3>3. MemOK' /\ LinksOK'
        BY <2>2, <3>1, <3>2, Zenon DEF TypeInv, MemOK, LinksOK
      <3>4. MainOK'
        BY <1>a, <2>1, <2>4, Zenon DEF TypeInv, MainOK
      <3>5. UtrsOK'
        BY <2>4, Keep, Zenon
      <3> QED BY <1>a, <2>1, <2>4, <3>3, <3>4, <3>5, Zenon DEF TypeInv
    <2>5. ASSUME NEW ed \in EdOf(mep),
                 hwPipe' = [hwPipe EXCEPT ![mep] = ed],
                 med' = ed, mpc' = "bulk_td",
                 UNCHANGED <<used, info, utrs, mu, mep, mtds, mn>>
          PROVE  TypeInv'
      <3>1. ed \in Units
        BY <2>1, ConstAssumption DEF EdOf, TypeInv, LinksOK
      <3>2. hwPipe' \in [Eps -> Ptr]
        BY <2>1, <2>5, <3>1, <1>d DEF TypeInv, LinksOK
      <3>3. LinksOK'
        BY <2>2, <3>2, Zenon DEF TypeInv, LinksOK
      <3>4. MemOK' /\ UtrsOK'
        BY <2>2, <2>5, Keep, Zenon DEF mem
      <3>5. MainOK'
        BY <1>a, <1>d, <2>5, <3>1, Zenon DEF TypeInv, MainOK
      <3> QED BY <1>a, <2>1, <2>5, <3>1, <3>3, <3>4, <3>5, Zenon DEF TypeInv
    <2> QED BY <1>5, <2>3, <2>4, <2>5, Zenon DEF BulkEd, u
  <1>6. CASE BulkAllocTd
    <2> DEFINE u == FirstFree(used)
    <2>1. /\ mpc = "bulk_td" /\ u \in Units
          /\ used' = Taken(used, u)
          /\ tdUtr' = [tdUtr EXCEPT ![u] = mu]
          /\ mtds' = Append(mtds, u)
          /\ tdCnt' = [tdCnt EXCEPT ![mu] = tdCnt[mu] + 1]
          /\ UNCHANGED <<info, skip, halt, queue, failed, links, alive, utrEp,
                         status, done, mpc, mu, mep, med, mn>>
      BY <1>6, <1>f DEF BulkAllocTd
    <2> HIDE DEF u
    <2>2. MemOK'
      <3>1. used' \in [Units -> BOOLEAN]
        BY <1>b, <1>e, <2>1
      <3>2. tdUtr' \in [Units -> Utrs \cup {None}]
        BY <2>1 DEF TypeInv, MemOK, MainOK
      <3> QED BY <2>1, <3>1, <3>2, Zenon DEF TypeInv, MemOK
    <2>3. UtrsOK'
      <3>1. tdCnt \in [Utrs -> Int]
        BY DEF TypeInv, UtrsOK
      <3>2. mu \in Utrs => tdCnt[mu] + 1 \in Int
        BY <3>1
      <3>3. tdCnt' \in [Utrs -> Int]
        BY <2>1, <3>1, <3>2, ExceptInt, Zenon
      <3> QED BY <2>1, <3>3, Zenon DEF TypeInv, UtrsOK
    <2>4. mtds' \in Seq(Ptr)
      BY <1>b, <1>d, <2>1
    <2>5. MainOK'
      BY <1>a, <2>1, <2>4, Zenon DEF TypeInv, MainOK
    <2>6. LinksOK'
      BY <2>1, Keep, Zenon
    <2> QED BY <1>a, <1>c, <1>g, <2>1, <2>2, <2>3, <2>5, <2>6, Zenon DEF TypeInv
  <1>7. CASE BulkMemOut
    <2>1. MemOK'
      BY <1>7, FreeUnitsType DEF BulkMemOut, TypeInv
    <2>2. mep \in Eps /\ SubmitFails /\ UNCHANGED <<list, removeList>>
      BY <1>7, <1>c DEF BulkMemOut
    <2> QED BY <1>a, <2>1, <2>2, SubmitFailsType, Zenon DEF TypeInv
  <1>8. CASE BulkLink
    <2>1. /\ mpc = "bulk_td" /\ mpc' = "wait"
          /\ queue' = [queue EXCEPT ![med] = mtds]
          /\ halt' = [halt EXCEPT ![med] = FALSE]
          /\ list' = [list EXCEPT !["bulk"] = @ \cup {med}]
          /\ mtds' = <<>> /\ med' = 0 /\ mn' = 0
          /\ UNCHANGED <<used, info, skip, tdUtr, failed, removeList, hwPipe, utrs, mu, mep>>
      BY <1>8 DEF BulkLink
    <2>2. med \in Units /\ mep \in Eps
      BY <2>1, <1>c, <1>g
    <2>3. queue' \in [Units -> Seq(Ptr)] /\ halt' \in [Units -> BOOLEAN]
      BY <1>b, <2>1, <2>2 DEF TypeInv, MemOK
    <2>4. MemOK'
      BY <2>1, <2>3, Zenon DEF TypeInv, MemOK
    <2>5. LinksOK'
      BY <2>1, <2>2 DEF TypeInv, LinksOK, Kinds
    <2>6. MainOK'
      BY <1>a, <1>d, <2>1, Zenon DEF TypeInv, MainOK
    <2>7. UtrsOK'
      BY <2>1, Keep, Zenon
    <2> QED BY <1>a, <2>1, <2>2, <2>4, <2>5, <2>6, <2>7, Zenon DEF TypeInv
  <1> QED
    BY <1>1, <1>2, <1>3, <1>4, <1>5, <1>6, <1>7, <1>8

\* Steps of the thread that wait for, stop or quit a request.
LEMMA QuitType ==
    ASSUME TypeInv,
           \/ WaitDone \/ WaitTimeout \/ QuitEp \/ IntStart \/ HubResubmit
           \/ IntStop \/ Quit \/ ArmSf \/ DelayOver \/ QuitDone
    PROVE  TypeInv'
  <1> USE ConstAssumption
  <1>a. mpc # "idle" => mep \in Eps
    BY DEF TypeInv
  <1>b. ipc = "idle"
    BY DEF WaitDone, WaitTimeout, QuitEp, IntStart, HubResubmit, IntStop, Quit,
           ArmSf, DelayOver, QuitDone, MainTurn
  <1>c. ASSUME SyncUnch
        PROVE  HcOK' /\ IsrOK' /\ ipc' # "td_free" /\ UNCHANGED <<slot, frames>>
    BY <1>b, <1>c, Keep, Zenon DEF SyncUnch, isr
  <1>1. CASE WaitDone
    <2>1. Return({mu}) /\ SyncUnch /\ UNCHANGED <<mem, links>>
      BY <1>1 DEF WaitDone
    <2>2. UtrsOK' /\ MainOK' /\ mpc' = "idle"
      BY <2>1, <1>c, ReturnType
    <2> QED BY <2>1, <2>2, <1>c, Keep, Zenon DEF TypeInv
  <1>2. CASE WaitTimeout
    <2>1. mpc = "wait" /\ mpc' = "quit" /\ SyncUnch /\ UNCHANGED <<mem, links, utrs, mu, mep, mtds, med, mn>>
      BY <1>2 DEF WaitTimeout
    <2>2. MainOK'
      BY <2>1, <1>c, Zenon DEF TypeInv, MainOK
    <2> QED BY <2>1, <2>2, <1>a, <1>c, Keep, Zenon DEF TypeInv
  <1>3. CASE QuitEp
    <2>1. mep' \in Eps /\ mpc' = "quit" /\ SyncUnch /\ UNCHANGED <<mem, links, utrs, mu, mtds, med, mn>>
      BY <1>3 DEF QuitEp
    <2>2. MainOK'
      BY <2>1, <1>c, Zenon DEF TypeInv, MainOK
    <2> QED BY <2>1, <2>2, <1>c, Keep, Zenon DEF TypeInv
  <1>4. CASE IntStart
    <2>1. PICK e \in Eps, r \in Utrs :
            IF IntXferFails(e)
            THEN IntXferFail(e) /\ UNCHANGED <<alive, utrEp, tdCnt, slot>>
            ELSE /\ IntXferOk(r, e)
                 /\ alive' = [alive EXCEPT ![r] = TRUE]
                 /\ utrEp' = [utrEp EXCEPT ![r] = e]
                 /\ tdCnt' = [tdCnt EXCEPT ![r] = 1]
                 /\ slot' = [slot EXCEPT ![e] = r]
      BY <1>4, Zenon DEF IntStart
    <2>2. UNCHANGED <<failed, removeList, status, done, hc, isr, mpc, mu, mep, mtds, med,
                      mn, frames>>
      BY <1>4 DEF IntStart
    <2>3. MemOK' /\ LinksOK'
      BY <2>1, <2>2, IntXferType
    <2>4. UtrsOK' /\ slot' \in [Eps -> Utrs \cup {None}]
      <3>1. CASE UNCHANGED <<alive, utrEp, tdCnt, slot>>
        BY <2>2, <3>1, Zenon DEF TypeInv, UtrsOK, MainOK
      <3>2. CASE /\ alive' = [alive EXCEPT ![r] = TRUE]
                 /\ utrEp' = [utrEp EXCEPT ![r] = e]
                 /\ tdCnt' = [tdCnt EXCEPT ![r] = 1]
                 /\ slot' = [slot EXCEPT ![e] = r]
        BY <2>2, <3>2 DEF TypeInv, UtrsOK, MainOK
      <3> QED BY <2>1, <3>1, <3>2, Zenon
    <2>5. MainOK'
      BY <2>2, <2>4, Zenon DEF TypeInv, MainOK
    <2>6. HcOK' /\ IsrOK' /\ ipc' # "td_free"
      BY <2>2, <1>b, Keep, Zenon DEF isr
    <2> QED BY <2>2, <2>3, <2>4, <2>5, <2>6, Zenon DEF TypeInv
  <1>5. CASE HubResubmit
    <2>1. PICK e \in Eps \ Resubmits :
            /\ slot[e] # None
            /\ IF IntXferFails(e)
               THEN IntXferFail(e) /\ UNCHANGED tdCnt
               ELSE IntXferOk(slot[e], e) /\ tdCnt' = [tdCnt EXCEPT ![slot[e]] = 1]
      BY <1>5, Zenon DEF HubResubmit
    <2>2. UNCHANGED <<failed, removeList, alive, utrEp, status, done, hc, isr, main>>
      BY <1>5 DEF HubResubmit
    <2>3. e \in Eps /\ slot[e] \in Utrs
      BY <2>1 DEF TypeInv, MainOK
    <2>4. MemOK' /\ LinksOK'
      BY <2>1, <2>2, <2>3, IntXferType
    <2>5. tdCnt' \in [Utrs -> Int]
      BY <2>1, <2>3 DEF TypeInv, UtrsOK
    <2>6. UtrsOK'
      BY <2>2, <2>5, Zenon DEF TypeInv, UtrsOK
    <2>7. HcOK' /\ IsrOK' /\ MainOK' /\ ipc' # "td_free"
      BY <2>2, <1>b, Keep, Zenon DEF isr
    <2>8. UNCHANGED <<mpc, mep, med>>
      BY <2>2 DEF main
    <2> QED BY <2>4, <2>6, <2>7, <2>8, Zenon DEF TypeInv
  <1>6. CASE IntStop
    <2>1. PICK e \in Stoppable :
            /\ slot[e] # None
            /\ slot' = [slot EXCEPT ![e] = None]
            /\ mu' = slot[e] /\ mep' = e /\ mpc' = "quit"
      BY <1>6, Zenon DEF IntStop
    <2>2. UNCHANGED <<mem, links, utrs, mtds, med, mn, frames, hc, isr>>
      BY <1>6 DEF IntStop
    <2>3. e \in Eps
      BY <2>1
    <2>4. slot' \in [Eps -> Utrs \cup {None}] /\ mu' \in Utrs \cup {None}
      BY <2>1, <2>3 DEF TypeInv, MainOK
    <2>5. MainOK'
      BY <2>1, <2>2, <2>3, <2>4, Zenon DEF TypeInv, MainOK
    <2>6. MemOK' /\ LinksOK' /\ UtrsOK' /\ HcOK' /\ IsrOK' /\ ipc' # "td_free"
      BY <2>2, <1>b, Keep, Zenon DEF isr
    <2> QED BY <2>1, <2>3, <2>5, <2>6, Zenon DEF TypeInv
  <1>7. CASE Quit
    <2>1. /\ mpc = "quit" /\ mep \in Eps /\ SyncUnch
          /\ UNCHANGED <<used, info, halt, queue, tdUtr, failed, list, hwPipe, utrs,
                         mu, mep, mtds, med, mn>>
      BY <1>7, <1>a DEF Quit
    <2>2. \/ mpc' = "quit_done" /\ UNCHANGED <<skip, removeList>>
          \/ /\ hwPipe[mep] # 0
             /\ skip' = [skip EXCEPT ![hwPipe[mep]] = TRUE]
             /\ removeList' = <<hwPipe[mep]>> \o removeList
             /\ mpc' = "arm"
      BY <1>7, Zenon DEF Quit, NothingToQuit, WithRemoved
    <2>3. hwPipe[mep] # 0 => hwPipe[mep] \in Units
      BY <2>1 DEF TypeInv, LinksOK, Ptr, Units
    <2>4. skip' \in [Units -> BOOLEAN]
      BY <2>2, <2>3 DEF TypeInv, MemOK
    <2>5. removeList' \in Seq(Units)
      <3>1. removeList \in Seq(Units)
        BY DEF TypeInv, LinksOK
      <3>2. ASSUME NEW u \in Units PROVE <<u>> \o removeList \in Seq(Units)
        BY <3>1
      <3> QED BY <2>2, <2>3, <3>1, <3>2, Zenon
    <2>6. MemOK' /\ LinksOK'
      BY <2>1, <2>4, <2>5, Zenon DEF TypeInv, MemOK, LinksOK
    <2>7. MainOK'
      BY <2>1, <2>2, <1>c, Zenon DEF TypeInv, MainOK
    <2>8. UtrsOK' /\ HcOK' /\ IsrOK' /\ ipc' # "td_free"
      BY <2>1, <1>c, Keep, Zenon
    <2> QED BY <2>1, <2>2, <2>6, <2>7, <2>8, Zenon DEF TypeInv
  <1>8. CASE ArmSf
    <2>1. /\ mpc = "arm" /\ mpc' = "delay" /\ sf' = FALSE /\ sfEn' = TRUE
          /\ UNCHANGED <<mem, links, utrs, hcEd, hcDone, hccaDone, wdh, isr,
                         mu, mep, mtds, med, mn, frames, slot>>
      BY <1>8, Zenon DEF ArmSf, SfEnabled
    <2>2. HcOK'
      BY <2>1, Zenon DEF TypeInv, HcOK
    <2>3. MainOK'
      BY <2>1, Zenon DEF TypeInv, MainOK
    <2>4. MemOK' /\ LinksOK' /\ UtrsOK' /\ IsrOK' /\ ipc' # "td_free"
      BY <2>1, <1>b, Keep, Zenon DEF isr
    <2> QED BY <2>1, <2>2, <2>3, <2>4, <1>a, Zenon DEF TypeInv
  <1>9. CASE DelayOver
    <2>1. /\ mpc = "delay" /\ mpc' = "quit_done" /\ frames' = 0
          /\ UNCHANGED <<mem, links, utrs, mu, mep, mtds, med, mn, slot, hc, isr>>
      BY <1>9 DEF DelayOver
    <2>2. MainOK'
      BY <2>1 DEF TypeInv, MainOK
    <2>3. MemOK' /\ LinksOK' /\ UtrsOK' /\ HcOK' /\ IsrOK' /\ ipc' # "td_free"
      BY <2>1, <1>b, Keep, Zenon DEF isr
    <2> QED BY <2>1, <2>2, <2>3, <1>a, Zenon DEF TypeInv
  <1>10. CASE QuitDone
    <2>1. /\ mpc = "quit_done" /\ hwPipe' = [hwPipe EXCEPT ![mep] = 0]
          /\ Return({mu}) /\ SyncUnch /\ UNCHANGED <<mem, list, removeList>>
      BY <1>10 DEF QuitDone
    <2>2. UtrsOK' /\ MainOK' /\ mpc' = "idle"
      BY <2>1, <1>c, ReturnType
    <2>3. LinksOK'
      BY <2>1, <1>a DEF TypeInv, LinksOK, Ptr
    <2> QED BY <2>1, <2>2, <2>3, <1>c, Keep, Zenon DEF TypeInv
  <1> QED
    BY <1>1, <1>2, <1>3, <1>4, <1>5, <1>6, <1>7, <1>8, <1>9, <1>10

LEMMA NextType == ASSUME TypeInv, [Next]_vars PROVE TypeInv'
  <1>1. CASE Hc
    BY <1>1, HcType
  <1>2. CASE Isr
    BY <1>2, IsrType
  <1>3. CASE Main
    BY <1>3, SubmitType, QuitType, Zenon DEF Main
  <1>4. CASE UNCHANGED vars
    <2>1. MemOK' /\ LinksOK' /\ UtrsOK' /\ HcOK' /\ IsrOK' /\ MainOK'
      BY <1>4, Keep, Zenon DEF vars
    <2> QED BY <1>4, <2>1, Zenon DEF TypeInv, vars, isr, main
  <1> QED BY <1>1, <1>2, <1>3, <1>4 DEF Next

LEMMA TypeInvHolds == Spec => []TypeInv
  BY InitType, NextType, PTL DEF Spec

\* Every variable keeps its type, however large the pool is and whatever the
\* client calls, the controller and the interrupt handler do to each other.
THEOREM TypeCorrect == Spec => []TypeOK
  BY TypeInvHolds, TypeInvImpliesTypeOK, PTL

-----------------------------------------------------------------------------
(* The handshake of add_to_ED_remove_list with the interrupt handler.      *)

\* SF is enabled only while somebody waits out the delay, and from the first
\* frame on the handler either has the interrupt pending or is at work on it.
RemoveInv ==
    /\ mpc \notin {"arm", "delay"} => removeList = <<>>
    /\ Len(removeList) <= 1
    /\ mpc # "delay" => frames = 0
    /\ sfEn => mpc = "delay"
    /\ ipc = "remove" => mpc = "delay" /\ ~sfEn
    /\ mpc = "delay" /\ removeList # <<>> => sfEn \/ ipc = "remove"
    /\ sfEn /\ frames > 0 => sf

LEMMA RemoveInvInit == Init => RemoveInv
  BY DEF Init, RemoveInv

\* Steps that neither touch the handshake nor enter or leave it.
LEMMA RemoveKeep ==
    ASSUME RemoveInv, UNCHANGED <<removeList, sfEn, sf, frames>>,
           mpc' = mpc \/ {mpc, mpc'} \cap {"arm", "delay"} = {},
           ipc' = ipc \/ (ipc # "remove" /\ ipc' # "remove")
    PROVE  RemoveInv'
  <1>1. CASE mpc' = mpc
    BY <1>1, Zenon DEF RemoveInv
  <1>2. CASE mpc \notin {"arm", "delay"} /\ mpc' \notin {"arm", "delay"}
    <2>1. /\ removeList = <<>> /\ frames = 0 /\ ~(sfEn \/ ipc = "remove") /\ Len(removeList) <= 1
      BY <1>2, Zenon DEF RemoveInv
    <2> QED BY <1>2, <2>1, Zenon DEF RemoveInv
  <1> QED BY <1>1, <1>2

LEMMA RemoveInvHc ==
    ASSUME RemoveInv, MainOK, Hc
    PROVE  RemoveInv'
  <1>1. CASE HcFetch
    BY <1>1, RemoveKeep, Zenon DEF HcFetch, links, isr, main
  <1>2. CASE HcNak
    BY <1>2, RemoveKeep, Zenon DEF HcNak, links, isr, main
  <1>3. CASE HcRetire
    BY <1>3, RemoveKeep, Zenon DEF HcRetire, links, isr, main
  <1>4. CASE HcFrame
    <2>1. sf' /\ UNCHANGED <<removeList, sfEn, ipc, mpc>>
      BY <1>4, Zenon DEF HcFrame, links, isr
    <2>2. mpc # "delay" => frames' = frames
      BY <1>4 DEF HcFrame
    <2>3. mpc' # "delay" => frames' = 0
      BY <2>1, <2>2, Zenon DEF RemoveInv
    <2> QED BY <2>1, <2>3, Zenon DEF RemoveInv
  <1> QED BY <1>1, <1>2, <1>3, <1>4 DEF Hc

LEMMA RemoveInvIsr ==
    ASSUME RemoveInv, LinksOK, Isr
    PROVE  RemoveInv'
  <1>1. CASE IsrEnter
    <2>1. ipc = "idle" /\ UNCHANGED <<removeList, sf, frames, mpc>>
      BY <1>1, Zenon DEF IsrEnter, links, main
    <2>2. CASE sfEn /\ ipc' = "remove" /\ ~sfEn'
      <3>1. mpc = "delay" /\ Len(removeList) <= 1
        BY <2>2, Zenon DEF RemoveInv
      <3>2. mpc' = "delay"
        BY <2>1, <3>1
      <3> QED BY <2>1, <2>2, <3>1, <3>2, Zenon DEF RemoveInv
    <2>3. CASE ipc' = "wdh" /\ sfEn' = sfEn
      BY <2>1, <2>3, RemoveKeep, Zenon
    <2> QED BY <1>1, <2>2, <2>3, Zenon DEF IsrEnter
  <1>2. CASE RemoveEd
    <2>1. /\ ipc = "remove" /\ removeList # <<>> /\ removeList' = Tail(removeList)
          /\ UNCHANGED <<sf, sfEn, frames, mpc, ipc>>
      BY <1>2, Zenon DEF RemoveEd, hc, isr, main
    <2>2. Len(removeList) <= 1
      BY Zenon DEF RemoveInv
    <2>3. Len(removeList') <= 1
      BY <2>1, <2>2 DEF LinksOK
    <2>4. removeList' = <<>>
      BY <2>1, <2>2 DEF LinksOK
    <2>5. mpc = "delay" /\ ~sfEn /\ (mpc # "delay" => frames = 0)
      BY <2>1, Zenon DEF RemoveInv
    <2> QED BY <2>1, <2>3, <2>4, <2>5, Zenon DEF RemoveInv
  <1>3. CASE RemoveDone
    <2>1. /\ ipc = "remove" /\ removeList = <<>> /\ ipc' # "remove"
          /\ UNCHANGED <<removeList, sfEn, frames, mpc>>
      BY <1>3, Zenon DEF RemoveDone, links, main
    <2>2. ~sfEn
      BY <2>1, Zenon DEF RemoveInv
    <2> QED BY <2>1, <2>2, Zenon DEF RemoveInv
  <1>4. CASE TakeDoneList
    BY <1>4, RemoveKeep, Zenon DEF TakeDoneList, links, main
  <1>5. CASE TdDone
    BY <1>5, RemoveKeep, Zenon DEF TdDone, links, hc, main
  <1>6. CASE TdDoneResubmit
    BY <1>6, RemoveKeep, Zenon DEF TdDoneResubmit, hc, main
  <1>7. CASE TdFree
    BY <1>7, RemoveKeep, Zenon DEF TdFree, links, hc, main
  <1>8. CASE IsrExit
    BY <1>8, RemoveKeep, Zenon DEF IsrExit, links, hc, main
  <1> QED
    BY <1>1, <1>2, <1>3, <1>4, <1>5, <1>6, <1>7, <1>8 DEF Isr

LEMMA RemoveInvMain ==
    ASSUME RemoveInv, TypeInv, Main
    PROVE  RemoveInv'
  <1>a. ASSUME SyncUnch
        PROVE  UNCHANGED <<sfEn, sf, frames, ipc>>
    BY <1>a DEF SyncUnch, hc, isr
  <1>b. ASSUME NEW S, Return(S)
        PROVE  mpc' = "idle"
    BY <1>b DEF Return
  <1>c. ASSUME SubmitFails
        PROVE  mpc' = "idle"
    BY <1>b, <1>c DEF SubmitFails
  <1>1. CASE XferBegin \/ CtrlAllocTd \/ CtrlEd \/ CtrlLink \/ BulkEd
             \/ BulkAllocTd \/ BulkMemOut \/ BulkLink
    <2>1. SyncUnch /\ removeList' = removeList
      BY <1>1, Zenon DEF XferBegin, CtrlAllocTd, CtrlEd, CtrlLink, BulkEd, BulkAllocTd,
                         BulkMemOut, BulkLink, links
    <2>2. mpc \in {"idle", "ctrl_td", "ctrl_link", "bulk_ed", "bulk_td"}
      BY <1>1, Zenon DEF XferBegin, CtrlAllocTd, CtrlEd, CtrlLink, BulkEd, BulkAllocTd,
                         BulkMemOut, BulkLink
    <2>3. mpc' \in {"idle", "ctrl_td", "ctrl_link", "bulk_ed", "bulk_td", "wait"}
      BY <1>1, <1>c, <2>2, Zenon DEF XferBegin, CtrlAllocTd, CtrlEd, CtrlLink, BulkEd,
                         BulkAllocTd, BulkMemOut, BulkLink
    <2>4. {mpc, mpc'} \cap {"arm", "delay"} = {}
      BY <2>2, <2>3
    <2> QED BY <1>a, <2>1, <2>4, RemoveKeep, Zenon
  <1>2. CASE WaitDone \/ WaitTimeout \/ QuitEp \/ QuitDone
    <2>1. SyncUnch /\ removeList' = removeList
      BY <1>2, Zenon DEF WaitDone, WaitTimeout, QuitEp, QuitDone, links
    <2>2. mpc \in {"idle", "wait", "quit_done"} /\ mpc' \in {"idle", "quit"}
      BY <1>2, <1>b, Zenon DEF WaitDone, WaitTimeout, QuitEp, QuitDone
    <2>3. {mpc, mpc'} \cap {"arm", "delay"} = {}
      BY <2>2
    <2> QED BY <1>a, <2>1, <2>3, RemoveKeep, Zenon
  <1>3. CASE IntStart \/ HubResubmit \/ IntStop
    <2>1. /\ UNCHANGED <<removeList, sfEn, sf, frames, ipc>>
          /\ mpc = "idle" /\ mpc' \in {"idle", "quit"}
      BY <1>3, Zenon DEF IntStart, HubResubmit, IntStop, links, hc, isr, main
    <2>2. {mpc, mpc'} \cap {"arm", "delay"} = {}
      BY <2>1
    <2> QED BY <2>1, <2>2, RemoveKeep, Zenon
  <1>4. CASE Quit
    <2>1. mpc = "quit" /\ UNCHANGED <<sfEn, sf, frames, ipc>>
      BY <1>4, <1>a, Zenon DEF Quit
    <2>2. removeList = <<>> /\ frames = 0 /\ ~(sfEn \/ ipc = "remove") /\ Len(removeList) <= 1
      BY <2>1, Zenon DEF RemoveInv
    <2>3. CASE mpc' = "quit_done" /\ removeList' = removeList
      BY <2>1, <2>2, <2>3, Zenon DEF RemoveInv
    <2>4. CASE mpc' = "arm" /\ removeList' = <<hwPipe[mep]>> \o removeList
      <3>1. removeList' = <<hwPipe[mep]>>
        BY <2>2, <2>4
      <3>2. Len(removeList') <= 1
        BY <3>1
      <3> QED BY <2>1, <2>2, <2>4, <3>2, Zenon DEF RemoveInv
    <2> QED BY <1>4, <2>3, <2>4, Zenon DEF Quit, WithRemoved
  <1>5. CASE ArmSf
    <2>1. /\ mpc = "arm" /\ mpc' = "delay" /\ sfEn'
          /\ UNCHANGED <<removeList, frames, ipc>>
      BY <1>5, Zenon DEF ArmSf, SfEnabled, links, isr
    <2>2. frames = 0 /\ Len(removeList) <= 1 /\ ipc # "remove"
      BY <2>1, <1>5, Zenon DEF RemoveInv, ArmSf, MainTurn
    <2>3. ~(frames' > 0)
      BY <2>1, <2>2
    <2> QED BY <2>1, <2>2, <2>3, Zenon DEF RemoveInv
  <1>6. CASE DelayOver
    <2>1. /\ mpc = "delay" /\ mpc' = "quit_done" /\ frames' = 0
          /\ frames >= DelayFrames /\ ipc = "idle" /\ ~(sfEn /\ sf)
          /\ UNCHANGED <<removeList, sfEn, sf, ipc>>
      BY <1>6, Zenon DEF DelayOver, DelayElapsed, MainTurn, IrqPending, links, hc, isr
    <2>2. frames > 0
      BY <2>1, ConstAssumption DEF TypeInv, MainOK
    <2>3. removeList = <<>> /\ ~sfEn
      BY <2>1, <2>2, Zenon DEF RemoveInv
    <2> QED BY <2>1, <2>3, Zenon DEF RemoveInv
  <1> QED BY <1>1, <1>2, <1>3, <1>4, <1>5, <1>6, Zenon DEF Main

LEMMA RemoveInvNext ==
    ASSUME TypeInv, RemoveInv, [Next]_vars
    PROVE  RemoveInv'
  <1>1. CASE Hc
    BY <1>1, RemoveInvHc DEF TypeInv
  <1>2. CASE Isr
    BY <1>2, RemoveInvIsr DEF TypeInv
  <1>3. CASE Main
    BY <1>3, RemoveInvMain
  <1>4. CASE UNCHANGED vars
    BY <1>4, RemoveKeep, Zenon DEF vars, links, hc, isr, main
  <1> QED BY <1>1, <1>2, <1>3, <1>4 DEF Next

\* add_to_ED_remove_list returns only after the interrupt handler has taken the
\* ED off the remove list, whatever the delay is as long as a frame begins in
\* it, and the list never holds a second ED.
THEOREM RemovedBeforeReturnHolds == Spec => []RemovedBeforeReturn
  <1>1. RemoveInv => RemovedBeforeReturn
    BY DEF RemoveInv, RemovedBeforeReturn
  <1> QED BY <1>1, TypeInvHolds, RemoveInvInit, RemoveInvNext, PTL DEF Spec
=============================================================================
