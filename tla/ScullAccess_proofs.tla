--------------------------- MODULE ScullAccess_proofs ---------------------------
(***************************************************************************)
(* Proofs about who is let into the access-controlled devices, for any     *)
(* processes with any credentials, terminals, settings and data.  What the *)
(* file operations do to the semaphore is in ScullBare_proofs.             *)
(***************************************************************************)
EXTENDS ScullAccess, ScullBare_proofs, FiniteSetTheorems

Inside  == {p \in Proc : In(p)}
Undoing == {p \in Proc : opening[p] = "s_undo"}

WaitSteps == {"w_lock", "w_try", "w_wait", "w_queued", "w_asleep", "w_wake"}

(* Where a process may be at a step of its open or release.                *)
Placed(l, o) ==
    /\ l = "opening" <=> o \notin {"", "w_wake"}
    /\ o = "w_wake" => l = "closed"
    /\ o = "s_undo" => minor = "single"
    /\ o \in WaitSteps => minor = "wuid"
    /\ o \in {"c_lookfor", "c_alloc"} => minor = "priv"

Stage ==
    /\ SemInv
    /\ minor \in Minors /\ cred \in [Proc -> Process]
    /\ opening \in [Proc -> OpenStep]
    /\ \A p \in Proc : Placed(pc[p], opening[p])

(* What every step of an open or a release does to the process itself.     *)
At(p, l, o) == Moved(p, l) /\ Goes(p, o) /\ UNCHANGED <<sem, minor, cred>>

Enters(l, o) == l \notin {"closed", "opening"} \/ o \in {"trim", "trimming"}

-----------------------------------------------------------------------------
LEMMA StageStep ==
    ASSUME Stage, NEW p \in Proc, NEW l \in {"closed", "opening", "idle"}, NEW o \in OpenStep,
           At(p, l, o), Placed(l, o), pc[p] \in {"closed", "opening", "idle"}
    PROVE  /\ Stage'
           /\ Inside' = IF Enters(l, o) THEN Inside \cup {p} ELSE Inside \ {p}
           /\ Undoing' = IF o = "s_undo" THEN Undoing \cup {p} ELSE Undoing \ {p}
<1> USE DEF At
<1>1. SemInv'
  BY Discipline DEF Stage, Copying, Location
<1>2. opening' \in [Proc -> OpenStep]
  BY DEF Stage, Goes
<1>3. ASSUME NEW q \in Proc
      PROVE  /\ Placed(pc[q], opening[q])'
             /\ q # p => pc'[q] = pc[q] /\ opening'[q] = opening[q]
             /\ q = p => pc'[q] = l /\ opening'[q] = o
  BY <1>3 DEF Stage, SemInv, Placed, Moved, Goes
<1>4. Stage'
  BY <1>1, <1>2, <1>3 DEF Stage
<1>5. Inside' = IF Enters(l, o) THEN Inside \cup {p} ELSE Inside \ {p}
  BY <1>3 DEF Inside, In, Enters
<1>6. Undoing' = IF o = "s_undo" THEN Undoing \cup {p} ELSE Undoing \ {p}
  BY <1>3 DEF Undoing
<1>7. QED
  BY <1>4, <1>5, <1>6

(* The steps that let a process in.                                        *)
Lets(p) ==
    \/ scull_s_available = 1 /\ \E flags \in Flags : SOpen(p, flags)
    \/ \E flags \in Flags : UOpen(p, flags)
    \/ Available(p) /\ WLock(p)
    \/ Clones(cred[p].tty) # {} /\ CLookfor(p)
    \/ CAlloc(p)

LEMMA JoinStep ==
    ASSUME Stage, NEW p \in Proc, Lets(p)
    PROVE  /\ Stage' /\ p \notin Inside /\ Inside' = Inside \cup {p} /\ Undoing' = Undoing
           /\ \E o \in {"trim", ""} : Goes(p, o)
           /\ opening[p] \in {"", "w_lock", "w_try", "c_lookfor", "c_alloc"}
           /\ UNCHANGED <<minor, cred>>
<1>1. PICK o \in {"trim", ""} : At(p, IF o = "trim" THEN "opening" ELSE "idle", o)
  BY DEF Lets, SOpen, UOpen, WLock, CLookfor, CAlloc, Admitted, GoTo, Moved, At, Fails, Begins
<1>2. /\ opening[p] \in {"", "w_lock", "w_try", "c_lookfor", "c_alloc"}
      /\ opening[p] = "" => pc[p] = "closed"
  BY DEF Lets, SOpen, UOpen, WLock, CLookfor, CAlloc
<1>3. pc[p] \in {"closed", "opening"} /\ p \notin Inside /\ p \notin Undoing
  BY <1>2 DEF Stage, Placed, Inside, In, Undoing
<1> DEFINE l == IF o = "trim" THEN "opening" ELSE "idle"
<1>4. At(p, l, o) /\ l \in {"closed", "opening", "idle"} /\ o \in OpenStep \ {"s_undo"}
  BY <1>1 DEF OpenStep
<1>5. Placed(l, o) /\ Enters(l, o)
  BY DEF Placed, WaitSteps, Enters
<1> HIDE DEF l
<1>6. /\ Stage'
      /\ Inside' = IF Enters(l, o) THEN Inside \cup {p} ELSE Inside \ {p}
      /\ Undoing' = IF o = "s_undo" THEN Undoing \cup {p} ELSE Undoing \ {p}
  <2>1. o \in OpenStep /\ pc[p] \in {"closed", "opening", "idle"}
    BY <1>3, <1>4
  <2>2. QED
    BY <1>4, <1>5, <2>1, StageStep
<1>7. QED
  BY <1>1, <1>2, <1>3, <1>4, <1>5, <1>6 DEF At

(* The releases.                                                           *)
Leaves(p) == SRelease(p) \/ URelease(p) \/ WRelease(p) \/ CRelease(p)

LEMMA LeaveStep ==
    ASSUME Stage, NEW p \in Proc, Leaves(p)
    PROVE  /\ Stage' /\ p \in Inside /\ Inside' = Inside \ {p} /\ Undoing' = Undoing
           /\ opening[p] = "" /\ \E o \in {"w_wake", ""} : Goes(p, o)
           /\ UNCHANGED <<minor, cred>>
<1>1. pc[p] = "idle" /\ Moved(p, "closed") /\ UNCHANGED <<sem, minor, cred>>
  BY DEF Leaves, SRelease, URelease, WRelease, CRelease, Release, GoTo, Moved
<1>2. opening[p] = "" /\ p \in Inside /\ p \notin Undoing
  BY <1>1 DEF Stage, Placed, Inside, In, Undoing
<1>3. PICK o \in {"w_wake", ""} : Goes(p, o) /\ (o = "w_wake" => minor = "wuid")
  <2>1. CASE WRelease(p)
    BY <2>1 DEF WRelease
  <2>2. CASE opening' = opening
    BY <2>2, <1>2 DEF Goes, Stage
  <2>3. QED
    BY <2>1, <2>2 DEF Leaves, SRelease, URelease, CRelease
<1>4. QED
  BY <1>1, <1>2, <1>3, StageStep DEF Placed, WaitSteps, OpenStep, Enters, At

(* The opens of scullsingle that find it taken, and their way back.        *)
LEMMA RefusedStep ==
    ASSUME Stage, NEW p \in Proc, scull_s_available # 1, NEW flags \in Flags, SOpen(p, flags)
    PROVE  /\ Stage' /\ Inside' = Inside /\ p \notin Undoing /\ Undoing' = Undoing \cup {p}
           /\ opening[p] = "" /\ Goes(p, "s_undo") /\ UNCHANGED <<minor, cred>>
<1>1. At(p, "opening", "s_undo") /\ pc[p] = "closed" /\ opening[p] = "" /\ minor = "single"
  BY DEF SOpen, Begins, GoTo, Moved, At
<1>2. p \notin Inside /\ p \notin Undoing
  BY <1>1 DEF Inside, In, Undoing
<1>3. QED
  BY <1>1, <1>2, StageStep DEF Placed, WaitSteps, OpenStep, Enters, At

LEMMA UndoStep ==
    ASSUME Stage, NEW p \in Proc, SUndo(p)
    PROVE  /\ Stage' /\ Inside' = Inside /\ p \in Undoing /\ Undoing' = Undoing \ {p}
           /\ opening[p] = "s_undo" /\ Goes(p, "") /\ UNCHANGED <<minor, cred>>
<1>1. At(p, "closed", "") /\ opening[p] = "s_undo"
  BY DEF SUndo, Fails, GoTo, Moved, At
<1>2. pc[p] = "opening" /\ p \notin Inside /\ p \in Undoing
  BY <1>1 DEF Stage, Placed, Inside, In, Undoing
<1>3. QED
  BY <1>1, <1>2, StageStep DEF Placed, WaitSteps, OpenStep, Enters, At

(* The steps of a wait, of a search and of a trim.                         *)
Passes(p) ==
    \/ \E flags \in Flags : COpen(p, flags) \/ \E nonblock \in BOOLEAN : WOpen(p, flags, nonblock)
    \/ ~Available(p) /\ WLock(p)
    \/ WWait(p) \/ WTest(p) \/ WSignal(p)
    \/ Clones(cred[p].tty) = {} /\ CLookfor(p)
    \/ CAllocFails(p) \/ StartTrim(p) \/ EndTrim(p)

LEMMA PassStep ==
    ASSUME Stage, NEW p \in Proc, Passes(p)
    PROVE  /\ Stage' /\ Inside' = Inside /\ Undoing' = Undoing
           /\ opening[p] # "w_wake" /\ \E o \in OpenStep : Goes(p, o)
           /\ UNCHANGED <<minor, cred, scull_s_available, owners, owner>>
<1> USE DEF GoTo, Moved, At, Goes
<1>1. UNCHANGED <<minor, cred, scull_s_available, owners, owner>>
  BY DEF Passes, COpen, WOpen, WLock, WWait, WTest, WSignal, CLookfor, CAllocFails, StartTrim, EndTrim, access
<1>2. pc[p] \in {"closed", "opening"} /\ opening[p] \notin {"w_wake", "s_undo"}
  BY DEF Passes, COpen, WOpen, Begins, WLock, WWait, WTest, WSignal, CLookfor, CAllocFails,
         StartTrim, EndTrim, Stage, Placed
<1> DEFINE Passing(l, o) == At(p, l, o) /\ Placed(l, o) /\ (Enters(l, o) <=> p \in Inside)
<1>3. \E l \in {"closed", "opening", "idle"}, o \in OpenStep \ {"s_undo"} : Passing(l, o)
  <2>1. CASE \E flags \in Flags : COpen(p, flags)
    <3>1. pc[p] = "closed" /\ opening[p] = "" /\ minor = "priv" /\ At(p, "opening", "c_lookfor")
      BY <2>1 DEF COpen, Begins
    <3>2. Passing("opening", "c_lookfor")
      BY <3>1 DEF Placed, WaitSteps, Enters, Inside, In
    <3>3. QED
      BY <3>2 DEF OpenStep
  <2>2. CASE \E flags \in Flags, nonblock \in BOOLEAN : WOpen(p, flags, nonblock)
    <3>1. PICK o \in {"w_lock", "w_try"} :
              pc[p] = "closed" /\ opening[p] = "" /\ minor = "wuid" /\ At(p, "opening", o)
      BY <2>2 DEF WOpen, Begins
    <3>2. Passing("opening", o)
      BY <3>1 DEF Placed, WaitSteps, Enters, Inside, In
    <3>3. QED
      BY <3>2 DEF OpenStep
  <2>3. CASE \/ ~Available(p) /\ WLock(p)
             \/ WWait(p) \/ WTest(p) \/ WSignal(p)
             \/ Clones(cred[p].tty) = {} /\ CLookfor(p)
             \/ CAllocFails(p)
    <3>1. opening[p] \in {"w_lock", "w_try", "w_wait", "w_queued", "w_asleep", "c_lookfor", "c_alloc"}
      BY <2>3 DEF WLock, WWait, WTest, WSignal, CLookfor, CAllocFails
    <3>2. pc[p] = "opening" /\ p \notin Inside /\ Placed(pc[p], opening[p])
      BY <3>1 DEF Stage, Placed, Inside, In
    <3>3. CASE pc' = [pc EXCEPT ![p] = "closed"]
      <4>1. At(p, "closed", "")
        BY <2>3, <3>2, <3>3 DEF WLock, WWait, WTest, WSignal, CLookfor, CAllocFails, Fails, vars, Stage, SemInv
      <4>2. Passing("closed", "")
        BY <3>2, <4>1 DEF Placed, WaitSteps, Enters
      <4>3. QED
        BY <4>2 DEF OpenStep
    <3>4. CASE pc' = pc
      <4>1. PICK o \in OpenStep :
                /\ opening' = [opening EXCEPT ![p] = o]
                /\ \/ o \in WaitSteps \ {"w_wake"} /\ opening[p] \in WaitSteps
                   \/ o = "c_alloc" /\ opening[p] = "c_lookfor"
        BY <2>3, <3>2, <3>4 DEF WLock, WWait, WTest, WSignal, CLookfor, CAllocFails, Fails, OpenStep, WaitSteps, Stage, SemInv
      <4>2. At(p, "opening", o)
        BY <1>1, <2>3, <3>2, <3>4, <4>1 DEF WLock, WWait, WTest, WSignal, CLookfor, CAllocFails, Fails, vars, Stage, SemInv
      <4>3. Placed("opening", o) /\ ~Enters("opening", o) /\ o # "s_undo"
        BY <3>2, <4>1 DEF Placed, WaitSteps, Enters
      <4>4. QED
        BY <3>2, <4>2, <4>3
    <3>5. QED
      BY <2>3, <3>3, <3>4 DEF WLock, WWait, WTest, WSignal, CLookfor, CAllocFails, Fails, vars
  <2>4. CASE StartTrim(p)
    <3>1. pc[p] = "opening" /\ p \in Inside /\ UNCHANGED <<pc, sem, minor, cred>> /\ Goes(p, "trimming")
      BY <2>4 DEF StartTrim, Stage, Placed, Inside, In, vars
    <3>2. Passing("opening", "trimming")
      BY <3>1 DEF Stage, SemInv, Placed, WaitSteps, Enters
    <3>3. QED
      BY <3>2 DEF OpenStep
  <2>5. CASE EndTrim(p)
    <3>1. p \in Inside /\ At(p, "idle", "")
      BY <2>5 DEF EndTrim, Inside, In
    <3>2. Passing("idle", "")
      BY <3>1 DEF Placed, WaitSteps, Enters
    <3>3. QED
      BY <3>2 DEF OpenStep
  <2>6. QED
    BY <2>1, <2>2, <2>3, <2>4, <2>5 DEF Passes
<1>4. PICK l \in {"closed", "opening", "idle"}, o \in OpenStep \ {"s_undo"} :
          At(p, l, o) /\ Placed(l, o) /\ (Enters(l, o) <=> p \in Inside)
  BY <1>3
<1>5. p \notin Undoing
  BY <1>2 DEF Undoing
<1>6. /\ Stage'
      /\ Inside' = IF Enters(l, o) THEN Inside \cup {p} ELSE Inside \ {p}
      /\ Undoing' = IF o = "s_undo" THEN Undoing \cup {p} ELSE Undoing \ {p}
  BY <1>2, <1>4, StageStep
<1>7. QED
  BY <1>1, <1>2, <1>4, <1>5, <1>6

(* A wake-up sends everyone who sleeps back to the test.                   *)
LEMMA WakeStep ==
    ASSUME Stage, NEW p \in Proc, WWake(p)
    PROVE  /\ Stage' /\ Inside' = Inside /\ Undoing' = Undoing
           /\ \A q \in Proc : opening'[q] # "w_asleep" /\ (opening'[q] = "c_alloc" => opening[q] = "c_alloc")
           /\ UNCHANGED <<minor, cred, access>>
<1>1. /\ opening[p] = "w_wake" /\ UNCHANGED <<vars, minor, cred, access>>
      /\ opening' = [q \in Proc |-> IF q = p THEN ""
                                    ELSE IF opening[q] = "w_asleep" THEN "w_queued" ELSE opening[q]]
  BY DEF WWake
<1>2. pc' = pc /\ sem' = sem /\ SemInv'
  BY <1>1 DEF Stage, SemInv, SemaphoreDiscipline, vars
<1>3. opening' \in [Proc -> OpenStep]
  BY <1>1 DEF Stage, OpenStep
<1>4. ASSUME NEW q \in Proc
      PROVE  /\ Placed(pc[q], opening[q])'
             /\ In(q)' <=> In(q)
             /\ opening'[q] = "s_undo" <=> opening[q] = "s_undo"
             /\ opening'[q] # "w_asleep" /\ (opening'[q] = "c_alloc" => opening[q] = "c_alloc")
  BY <1>1, <1>2 DEF Stage, Placed, WaitSteps, In
<1>5. Inside' = Inside /\ Undoing' = Undoing
  BY <1>4 DEF Inside, Undoing
<1>6. Stage'
  BY <1>1, <1>2, <1>3, <1>4 DEF Stage
<1>7. QED
  BY <1>1, <1>4, <1>5, <1>6

(* Reading, writing and the like happen inside and stay there.             *)
LEMMA UseStep ==
    ASSUME Stage, NEW p \in Proc, Uses(p)
    PROVE  /\ Stage' /\ Inside' = Inside /\ Undoing' = Undoing
           /\ UNCHANGED <<minor, cred, opening, access>>
<1>1. UNCHANGED <<minor, cred, opening, access>> /\ FileStep(p)
  BY DEF Uses, FileStep
<1>2. /\ SemInv' /\ pc[p] \notin {"closed", "opening"}
      /\ \E l \in Location \ {"closed", "opening"} : Moved(p, l)
  BY <1>1, FileStepKeeps DEF Stage
<1>3. PICK l \in Location \ {"closed", "opening"} : Moved(p, l)
  BY <1>2
<1>4. ASSUME NEW q \in Proc
      PROVE  Placed(pc[q], opening[q])' /\ (In(q)' <=> In(q))
  BY <1>1, <1>2, <1>3 DEF Stage, SemInv, Placed, Moved, In
<1>5. Stage'
  BY <1>1, <1>2, <1>4 DEF Stage
<1>6. Inside' = Inside /\ Undoing' = Undoing
  BY <1>1, <1>4 DEF Inside, Undoing
<1>7. QED
  BY <1>1, <1>5, <1>6

LEMMA StepsAreKnown ==
    ASSUME Stage, [AccessNext]_avars
    PROVE  \/ UNCHANGED avars
           \/ \E p \in Proc : \/ Lets(p) \/ Leaves(p) \/ Passes(p) \/ SUndo(p) \/ WWake(p) \/ Uses(p)
                              \/ scull_s_available # 1 /\ \E flags \in Flags : SOpen(p, flags)
  BY DEF AccessNext, Opens, Lets, Leaves, Passes

-----------------------------------------------------------------------------
(* The counts of the three devices that have one.                          *)
Counted ==
    /\ owners \in Nat /\ scull_s_available \in Int /\ owner \in User
    /\ CountIsOpenings /\ OneUser /\ SingleOpen
    /\ minor = "single" => scull_s_available = 1 - Cardinality(Inside) - Cardinality(Undoing)

LEMMA Finite ==
    ASSUME NEW p
    PROVE  /\ IsFiniteSet(Inside) /\ IsFiniteSet(Undoing)
           /\ Cardinality(Inside) \in Nat /\ Cardinality(Undoing) \in Nat
           /\ Cardinality(Inside) = 0 <=> Inside = {}
           /\ p \notin Inside => Cardinality(Inside \cup {p}) = Cardinality(Inside) + 1
           /\ p \in Inside => Cardinality(Inside \ {p}) = Cardinality(Inside) - 1
           /\ p \notin Undoing => Cardinality(Undoing \cup {p}) = Cardinality(Undoing) + 1
           /\ p \in Undoing => Cardinality(Undoing \ {p}) = Cardinality(Undoing) - 1
<1>1. IsFiniteSet(Inside) /\ IsFiniteSet(Undoing)
  BY AccessAssumption, FS_Subset DEF Inside, Undoing
<1>2. QED
  BY <1>1, FS_CardinalityType, FS_EmptySet, FS_AddElement, FS_RemoveElement

(* With the same counts and the same processes inside nothing changes.     *)
LEMMA SameCounts ==
    ASSUME Stage, Counted, Inside' = Inside, Undoing' = Undoing,
           UNCHANGED <<minor, cred, scull_s_available, owners, owner>>
    PROVE  Counted'
<1>1. CountIsOpenings'
  BY DEF Counted, CountIsOpenings, Inside
<1>2. \A q \in Proc : In(q)' <=> In(q)
  BY DEF Inside
<1>3. OneUser' /\ SingleOpen'
  BY <1>2 DEF Counted, OneUser, SingleOpen
<1>4. QED
  BY <1>1, <1>3 DEF Counted

LEMMA JoinCounted ==
    ASSUME Stage, Counted, NEW p \in Proc, Lets(p)
    PROVE  Counted'
<1>1. /\ Stage' /\ p \notin Inside /\ Inside' = Inside \cup {p} /\ Undoing' = Undoing
      /\ UNCHANGED <<minor, cred>>
  BY JoinStep
<1>2. \A q \in Proc : In(q)' <=> In(q) \/ q = p
  BY <1>1 DEF Inside
<1>3. Placed(pc[p], opening[p]) /\ cred[p].uid \in User
  BY AccessAssumption DEF Stage
<1>4. CASE minor = "single"
  <2>1. scull_s_available = 1 /\ \E flags \in Flags : SOpen(p, flags)
    BY <1>3, <1>4 DEF Lets, UOpen, WLock, CLookfor, CAlloc, Placed, WaitSteps
  <2>2. scull_s_available' = 0 /\ UNCHANGED <<owners, owner>>
    <3>1. scull_s_available' = scull_s_available - 1 /\ UNCHANGED <<owners, owner>>
      BY <2>1 DEF SOpen
    <3>2. QED
      BY <2>1, <3>1
  <2>3. Cardinality(Inside) = 0 /\ Cardinality(Undoing) = 0 /\ Inside = {} /\ Cardinality(Inside \cup {p}) = 1
    <3>1. Cardinality(Inside) \in Nat /\ Cardinality(Undoing) \in Nat
      BY Finite
    <3>2. 1 = 1 - Cardinality(Inside) - Cardinality(Undoing)
      BY <1>4, <2>1 DEF Counted
    <3>3. Cardinality(Inside) = 0 /\ Cardinality(Undoing) = 0
      BY <3>1, <3>2
    <3>4. Inside = {} /\ Cardinality(Inside \cup {p}) = Cardinality(Inside) + 1
      BY <1>1, <3>3, Finite
    <3>5. QED
      BY <3>3, <3>4
  <2>4. SingleOpen'
    BY <1>2, <2>3 DEF SingleOpen, Inside
  <2>5. scull_s_available' = 1 - Cardinality(Inside') - Cardinality(Undoing')
    BY <1>1, <2>2, <2>3
  <2>6. QED
    BY <1>1, <1>4, <2>2, <2>4, <2>5 DEF Counted, CountIsOpenings, OneUser
<1>5. CASE minor \in {"uid", "wuid"}
  <2>1. Available(p) /\ CountMe(p)
    BY <1>3, <1>5 DEF Lets, SOpen, UOpen, WLock, CLookfor, CAlloc, Placed, WaitSteps, Fails
  <2>2. /\ owners = Cardinality(Inside) /\ owners' = owners + 1 /\ owner' \in User
        /\ scull_s_available' = scull_s_available
    BY <1>3, <1>5, <2>1 DEF Counted, CountIsOpenings, CountMe, Inside
  <2>3. owners' = Cardinality(Inside')
    BY <1>1, <2>2, Finite
  <2>4. CountIsOpenings'
    BY <2>3 DEF CountIsOpenings, Inside
  <2>5. OneUser'
    <3>1. ASSUME NEW q \in Proc, In(q)'
          PROVE  owner' \in {cred[q].uid, cred[q].euid} \/ cred[q].capable
      <4>1. CASE owners = 0
        BY <4>1, <3>1, <1>2, <2>1, <2>2, Finite DEF CountMe, Inside
      <4>2. CASE owners # 0
        BY <4>2, <3>1, <1>2, <1>5, <2>1 DEF CountMe, Available, Counted, OneUser
      <4>3. QED
        BY <4>1, <4>2
    <3>2. QED
      BY <3>1, <1>1 DEF OneUser
  <2>6. QED
    BY <1>1, <1>5, <2>2, <2>4, <2>5 DEF Counted, SingleOpen
<1>6. CASE minor = "priv"
  <2>1. UNCHANGED <<scull_s_available, owners, owner>>
    BY <1>3, <1>6 DEF Lets, SOpen, UOpen, WLock, CLookfor, CAlloc, Placed, WaitSteps
  <2>2. QED
    BY <1>1, <1>6, <2>1 DEF Counted, CountIsOpenings, OneUser, SingleOpen
<1>7. QED
  BY <1>4, <1>5, <1>6, AccessAssumption DEF Stage, Minor

LEMMA LeaveCounted ==
    ASSUME Stage, Counted, NEW p \in Proc, Leaves(p)
    PROVE  Counted'
<1>1. /\ p \in Inside /\ Inside' = Inside \ {p} /\ Undoing' = Undoing
      /\ UNCHANGED <<minor, cred>>
  BY LeaveStep
<1>2. \A q \in Proc : In(q)' => In(q)
  BY <1>1 DEF Inside
<1>3. /\ minor = "single" => scull_s_available' = scull_s_available + 1
      /\ minor # "single" => scull_s_available' = scull_s_available
      /\ owners' = IF minor \in {"uid", "wuid"} THEN owners - 1 ELSE owners
      /\ owner' = owner
  BY DEF Leaves, SRelease, URelease, WRelease, CRelease, access
<1>4. Cardinality(Inside') = Cardinality(Inside) - 1 /\ Cardinality(Inside') \in Nat
  BY <1>1, Finite, FS_RemoveElement, FS_CardinalityType
<1>5. minor \in {"uid", "wuid"} => owners' = Cardinality(Inside')
  BY <1>3, <1>4, Finite DEF Counted, CountIsOpenings, Inside
<1>6. owners' \in Nat /\ CountIsOpenings'
  BY <1>1, <1>3, <1>4, <1>5 DEF Counted, CountIsOpenings, Inside
<1>7. OneUser' /\ SingleOpen'
  BY <1>1, <1>2, <1>3 DEF Counted, OneUser, SingleOpen
<1>8. minor' = "single" => scull_s_available' = 1 - Cardinality(Inside') - Cardinality(Undoing')
  <2>1. Cardinality(Inside) \in Nat /\ Cardinality(Undoing) \in Nat /\ Undoing' = Undoing /\ minor' = minor
    BY <1>1, Finite
  <2>2. QED
    BY <1>3, <1>4, <2>1 DEF Counted
<1>9. scull_s_available' \in Int /\ owner' \in User
  BY <1>3 DEF Counted
<1>10. QED
  BY <1>6, <1>7, <1>8, <1>9 DEF Counted

(* What a refused open of scullsingle takes it gives back.                 *)
LEMMA RefusedCounted ==
    ASSUME Stage, Counted, Inside' = Inside, UNCHANGED <<minor, cred, owners, owner>>,
           NEW k \in Int, scull_s_available' = scull_s_available - k,
           Cardinality(Undoing') = Cardinality(Undoing) + k
    PROVE  Counted'
<1>1. \A q \in Proc : In(q)' <=> In(q)
  BY DEF Inside
<1>2. CountIsOpenings' /\ OneUser' /\ SingleOpen'
  BY <1>1 DEF Counted, CountIsOpenings, OneUser, SingleOpen, Inside
<1>3. Cardinality(Inside) \in Nat /\ Cardinality(Undoing) \in Nat
  BY Finite
<1>4. minor' = "single" => scull_s_available' = 1 - Cardinality(Inside') - Cardinality(Undoing')
  BY <1>3 DEF Counted
<1>5. QED
  BY <1>2, <1>4 DEF Counted

LEMMA CountedStep ==
    ASSUME Stage, Counted, [AccessNext]_avars
    PROVE  Stage' /\ Counted'
<1>1. CASE UNCHANGED avars
  <2>1. Stage' /\ Inside' = Inside /\ Undoing' = Undoing
    BY <1>1 DEF avars, vars, Stage, SemInv, SemaphoreDiscipline, Placed, Inside, In, Undoing
  <2>2. QED
    BY <2>1, <1>1, SameCounts DEF avars, access
<1>2. ASSUME NEW p \in Proc, Lets(p)
      PROVE  Stage' /\ Counted'
  BY <1>2, JoinStep, JoinCounted
<1>3. ASSUME NEW p \in Proc, Leaves(p)
      PROVE  Stage' /\ Counted'
  BY <1>3, LeaveStep, LeaveCounted
<1>4. ASSUME NEW p \in Proc, Passes(p)
      PROVE  Stage' /\ Counted'
  BY <1>4, PassStep, SameCounts
<1>5. ASSUME NEW p \in Proc, WWake(p) \/ Uses(p)
      PROVE  Stage' /\ Counted'
  BY <1>5, WakeStep, UseStep, SameCounts DEF access
<1>6. ASSUME NEW p \in Proc, SUndo(p)
      PROVE  Stage' /\ Counted'
  <2>1. /\ Stage' /\ Inside' = Inside /\ UNCHANGED <<minor, cred>>
        /\ p \in Undoing /\ Undoing' = Undoing \ {p}
    BY <1>6, UndoStep
  <2>2. scull_s_available' = scull_s_available + 1 /\ UNCHANGED <<owners, owner>>
    BY <1>6 DEF SUndo
  <2>3. Cardinality(Undoing') = Cardinality(Undoing) - 1 /\ Cardinality(Undoing) \in Nat
    BY <2>1, Finite
  <2>4. /\ -1 \in Int /\ scull_s_available' = scull_s_available - (-1)
        /\ Cardinality(Undoing') = Cardinality(Undoing) + (-1)
    BY <2>2, <2>3 DEF Counted
  <2>5. QED
    BY <2>1, <2>2, <2>4, RefusedCounted
<1>7. ASSUME NEW p \in Proc, scull_s_available # 1, NEW flags \in Flags, SOpen(p, flags)
      PROVE  Stage' /\ Counted'
  <2>1. /\ Stage' /\ Inside' = Inside /\ UNCHANGED <<minor, cred>>
        /\ p \notin Undoing /\ Undoing' = Undoing \cup {p}
    BY <1>7, RefusedStep
  <2>2. scull_s_available' = scull_s_available - 1 /\ UNCHANGED <<owners, owner>>
    BY <1>7 DEF SOpen
  <2>3. Cardinality(Undoing') = Cardinality(Undoing) + 1
    BY <2>1, Finite
  <2>4. 1 \in Int
    OBVIOUS
  <2>5. QED
    BY <2>1, <2>2, <2>3, <2>4, RefusedCounted
<1>8. QED
  BY <1>1, <1>2, <1>3, <1>4, <1>5, <1>6, <1>7, StepsAreKnown

-----------------------------------------------------------------------------
(* A process about to sleep has seen the device taken, under no lock: what *)
(* it saw is still so, or a release is on its way to wake it.              *)
LEMMA SleepStep ==
    ASSUME Stage, NEW p \in Proc, Passes(p), opening'[p] = "w_asleep"
    PROVE  ~Available(p)
<1>1. p \in DOMAIN opening
  BY DEF Stage
<1>2. CASE \/ \E flags \in Flags : COpen(p, flags) \/ \E nonblock \in BOOLEAN : WOpen(p, flags, nonblock)
           \/ StartTrim(p) \/ EndTrim(p)
  BY <1>1, <1>2 DEF COpen, WOpen, Begins, Goes, StartTrim, EndTrim
<1>3. CASE WWait(p) \/ WTest(p)
  BY <1>1, <1>3 DEF WWait, WTest, Goes
<1>4. CASE ~Available(p) /\ WLock(p)
  BY <1>4
<1>5. CASE WSignal(p)
  BY <1>5 DEF WSignal
<1>6. CASE (Clones(cred[p].tty) = {} /\ CLookfor(p)) \/ CAllocFails(p)
  BY <1>1, <1>6 DEF CLookfor, CAllocFails, Fails, Goes
<1>7. QED
  BY <1>2, <1>3, <1>4, <1>5, <1>6 DEF Passes

LEMMA SleeperStep ==
    ASSUME Stage, Counted, SleeperIsWoken, [AccessNext]_avars
    PROVE  SleeperIsWoken'
<1> SUFFICES ASSUME NEW s \in Proc, opening'[s] = "w_asleep", Available(s)'
             PROVE  \E w \in Proc : opening'[w] = "w_wake"
  BY DEF SleeperIsWoken
<1>1. Stage' /\ Counted'
  BY CountedStep
<1>2. minor' = "wuid" /\ opening \in [Proc -> OpenStep]
  BY <1>1 DEF Stage, Placed, WaitSteps
<1>3. CASE UNCHANGED avars
  BY <1>3 DEF avars, access, SleeperIsWoken, Available
<1>4. ASSUME NEW p \in Proc, Lets(p)
      PROVE  \E w \in Proc : opening'[w] = "w_wake"
  <2>1. /\ opening[p] # "w_wake" /\ UNCHANGED <<minor, cred>>
        /\ \A q \in Proc \ {p} : opening'[q] = opening[q]
        /\ s # p
    BY <1>2, <1>4, JoinStep DEF Goes
  <2>2. Placed(pc[p], opening[p])
    BY DEF Stage
  <2>3. CountMe(p)
    BY <1>2, <1>4, <2>1, <2>2 DEF Lets, SOpen, UOpen, WLock, CLookfor, CAlloc, Placed, WaitSteps, Fails
  <2>4. owners' # 0 /\ (owners # 0 => owner' = owner)
    BY <2>3 DEF CountMe, Counted
  <2>5. Available(s)
    BY <2>1, <2>4 DEF Available
  <2>6. QED
    BY <2>1, <2>5 DEF SleeperIsWoken
<1>5. ASSUME NEW p \in Proc, Leaves(p)
      PROVE  \E w \in Proc : opening'[w] = "w_wake"
  <2>1. /\ opening[p] = "" /\ UNCHANGED <<minor, cred>>
        /\ \A q \in Proc \ {p} : opening'[q] = opening[q]
        /\ s # p
    BY <1>2, <1>5, LeaveStep DEF Goes
  <2>2. WRelease(p)
    BY <1>2, <1>5, <2>1 DEF Leaves, SRelease, URelease, CRelease
  <2>3. CASE owners' = 0
    BY <1>2, <2>2, <2>3 DEF WRelease, Goes
  <2>4. CASE owners' # 0
    <3>1. owner' = owner
      BY <2>2 DEF WRelease
    <3>2. Available(s)
      BY <2>1, <2>4, <3>1 DEF Available
    <3>3. QED
      BY <2>1, <3>2 DEF SleeperIsWoken
  <2>5. QED
    BY <2>3, <2>4
<1>6. ASSUME NEW p \in Proc, Passes(p)
      PROVE  \E w \in Proc : opening'[w] = "w_wake"
  <2>1. /\ opening[p] # "w_wake" /\ UNCHANGED <<minor, cred, owners, owner>>
        /\ \A q \in Proc \ {p} : opening'[q] = opening[q]
    BY <1>2, <1>6, PassStep DEF Goes
  <2>2. Available(s)
    BY <2>1 DEF Available
  <2>3. s # p
    BY <1>6, <2>2, SleepStep
  <2>4. QED
    BY <2>1, <2>2, <2>3 DEF SleeperIsWoken
<1>7. ASSUME NEW p \in Proc, WWake(p)
      PROVE  FALSE
  BY <1>7, WakeStep
<1>8. ASSUME NEW p \in Proc, Uses(p)
      PROVE  \E w \in Proc : opening'[w] = "w_wake"
  <2>1. UNCHANGED <<minor, cred, opening, owners, owner>>
    BY <1>8, UseStep DEF access
  <2>2. Available(s)
    BY <2>1 DEF Available
  <2>3. QED
    BY <2>1, <2>2 DEF SleeperIsWoken
<1>9. ASSUME NEW p \in Proc, SUndo(p) \/ (scull_s_available # 1 /\ \E flags \in Flags : SOpen(p, flags))
      PROVE  FALSE
  BY <1>2, <1>9 DEF SUndo, SOpen, Stage, Placed
<1>10. CASE ~UNCHANGED avars
  <2>1. PICK p \in Proc :
            \/ Lets(p) \/ Leaves(p) \/ Passes(p) \/ SUndo(p) \/ WWake(p) \/ Uses(p)
            \/ scull_s_available # 1 /\ \E flags \in Flags : SOpen(p, flags)
    BY <1>10, StepsAreKnown
  <2>2. CASE Lets(p)
    BY <2>2, <1>4
  <2>3. CASE Leaves(p)
    BY <2>3, <1>5
  <2>4. CASE Passes(p)
    BY <2>4, <1>6
  <2>5. CASE WWake(p)
    BY <2>5, <1>7
  <2>6. CASE Uses(p)
    BY <2>6, <1>8
  <2>7. CASE SUndo(p) \/ (scull_s_available # 1 /\ \E flags \in Flags : SOpen(p, flags))
    BY <2>7, <1>9
  <2>8. QED
    BY <2>1, <2>2, <2>3, <2>4, <2>5, <2>6, <2>7
<1>11. QED
  BY <1>3, <1>10

-----------------------------------------------------------------------------
(* The list of clones, and who is about to add to it: one process at most, *)
(* which has the spinlock and a terminal without a clone.                  *)
Cloned ==
    /\ scull_c_list \in Seq(Tty) /\ private_data \in [Proc -> Nat]
    /\ scull_c_lock \in Proc \cup {NoProc}
    /\ OneClonePerTty
    /\ \A p \in Proc : opening[p] = "c_alloc" => scull_c_lock = p /\ Clones(cred[p].tty) = {}

LEMMA SameClones ==
    ASSUME Cloned, UNCHANGED <<minor, cred, scull_c_list, scull_c_lock, private_data>>,
           \A q \in Proc : opening'[q] = "c_alloc" => opening[q] = "c_alloc",
           minor = "priv" => Inside' \subseteq Inside
    PROVE  Cloned'
<1>1. minor = "priv" => \A q \in Proc : In(q)' => In(q)
  BY DEF Inside
<1>2. OneClonePerTty'
  BY <1>1 DEF Cloned, OneClonePerTty
<1>3. QED
  BY <1>2 DEF Cloned, Clones

LEMMA FindClone ==
    ASSUME Stage, Cloned, NEW p \in Proc, CLookfor(p)
    PROVE  Cloned'
<1>1. CASE Clones(cred[p].tty) # {}
  <2>1. /\ Inside' = Inside \cup {p} /\ UNCHANGED <<minor, cred>>
        /\ \E o \in {"trim", ""} : Goes(p, o)
    BY <1>1, JoinStep DEF Lets
  <2>2. PICK i \in Clones(cred[p].tty) :
            private_data' = [private_data EXCEPT ![p] = i] /\ UNCHANGED <<scull_c_lock, scull_c_list>>
    BY <1>1 DEF CLookfor
  <2>3. i \in Nat /\ i \in DOMAIN scull_c_list /\ scull_c_list[i] = cred[p].tty
    BY DEF Clones, Cloned
  <2>4. private_data' \in [Proc -> Nat]
    BY <2>2, <2>3 DEF Cloned
  <2>5. ASSUME NEW q \in Proc
        PROVE  /\ In(q)' => In(q) \/ q = p
               /\ q = p => private_data'[q] = i
               /\ q # p => private_data'[q] = private_data[q]
               /\ opening'[q] = "c_alloc" => opening[q] = "c_alloc"
    BY <2>1, <2>2 DEF Inside, Cloned, Goes, Stage
  <2>6. OneClonePerTty'
    BY <2>1, <2>2, <2>3, <2>5 DEF Cloned, OneClonePerTty
  <2>7. QED
    BY <2>1, <2>2, <2>4, <2>5, <2>6 DEF Cloned, Clones
<1>2. CASE Clones(cred[p].tty) = {}
  <2>1. /\ Inside' = Inside /\ UNCHANGED <<minor, cred>>
    BY <1>2, PassStep DEF Passes
  <2>2. /\ scull_c_lock = NoProc /\ scull_c_lock' = p /\ Goes(p, "c_alloc")
        /\ UNCHANGED <<private_data, scull_c_list>>
    BY <1>2 DEF CLookfor
  <2>3. \A q \in Proc : opening[q] # "c_alloc"
    BY <2>2, StoreAssumption DEF Cloned
  <2>4. \A q \in Proc : opening'[q] = "c_alloc" => q = p
    BY <2>2, <2>3 DEF Goes, Stage
  <2>5. \A q \in Proc : In(q)' => In(q)
    BY <2>1 DEF Inside
  <2>6. OneClonePerTty'
    BY <2>1, <2>2, <2>5 DEF Cloned, OneClonePerTty
  <2>7. QED
    BY <1>2, <2>1, <2>2, <2>4, <2>6 DEF Cloned, Clones
<1>3. QED
  BY <1>1, <1>2

LEMMA AddClone ==
    ASSUME Stage, Cloned, NEW p \in Proc, CAlloc(p)
    PROVE  Cloned'
<1> DEFINE n == Len(scull_c_list) + 1
<1>1. /\ Inside' = Inside \cup {p} /\ UNCHANGED <<minor, cred>>
      /\ \E o \in {"trim", ""} : Goes(p, o)
  BY JoinStep DEF Lets
<1>2. /\ opening[p] = "c_alloc" /\ scull_c_lock' = NoProc
      /\ scull_c_list' = Append(scull_c_list, cred[p].tty)
      /\ private_data' = [private_data EXCEPT ![p] = Len(scull_c_list')]
  BY DEF CAlloc
<1>3. cred[p].tty \in Tty /\ scull_c_list \in Seq(Tty) /\ Clones(cred[p].tty) = {} /\ scull_c_lock = p
  <2>1. cred[p] \in [uid : User, euid : User, capable : BOOLEAN, tty : Tty]
    BY AccessAssumption DEF Stage
  <2>2. cred[p].tty \in Tty
    BY <2>1
  <2>3. QED
    BY <1>2, <2>2 DEF Cloned
<1>4. /\ scull_c_list' \in Seq(Tty) /\ DOMAIN scull_c_list = 1 .. n - 1 /\ n \in Nat \ {0}
      /\ DOMAIN scull_c_list' = 1 .. n /\ Len(scull_c_list') = n
      /\ scull_c_list'[n] = cred[p].tty
      /\ \A i \in 1 .. n - 1 : scull_c_list'[i] = scull_c_list[i] /\ scull_c_list[i] # cred[p].tty
  BY <1>2, <1>3 DEF Clones
<1> HIDE DEF n
<1>5. \A i, j \in DOMAIN scull_c_list' : scull_c_list'[i] = scull_c_list'[j] => i = j
  <2>1. \A i \in 1 .. n : i = n \/ i \in 1 .. n - 1
    BY <1>4
  <2>2. \A i, j \in 1 .. n - 1 : scull_c_list[i] = scull_c_list[j] => i = j
    BY <1>4 DEF Cloned, OneClonePerTty
  <2>3. QED
    BY <1>4, <2>1, <2>2
<1>6. ASSUME NEW q \in Proc
      PROVE  /\ In(q)' => In(q) \/ q = p
             /\ q = p => private_data'[q] = n
             /\ q # p => private_data'[q] = private_data[q]
             /\ opening'[q] # "c_alloc"
  <2>1. In(q)' => In(q) \/ q = p
    BY <1>1 DEF Inside
  <2>2. opening'[q] # "c_alloc"
    BY <1>1, <1>3 DEF Cloned, Goes, Stage
  <2>3. QED
    BY <1>2, <1>4, <2>1, <2>2 DEF Cloned
<1>7. minor' = "priv" => \A q \in Proc : In(q)' =>
          private_data'[q] \in DOMAIN scull_c_list' /\ scull_c_list'[private_data'[q]] = cred'[q].tty
  <2> SUFFICES ASSUME minor' = "priv", NEW q \in Proc, In(q)'
               PROVE  private_data'[q] \in DOMAIN scull_c_list' /\ scull_c_list'[private_data'[q]] = cred'[q].tty
    OBVIOUS
  <2>1. CASE q = p
    <3>1. private_data'[q] = n /\ cred'[q] = cred[p]
      BY <1>1, <1>6, <2>1
    <3>2. n \in DOMAIN scull_c_list'
      BY <1>4
    <3>3. QED
      BY <1>4, <3>1, <3>2
  <2>2. CASE q # p
    <3>1. In(q) /\ minor = "priv" /\ cred'[q] = cred[q] /\ private_data'[q] = private_data[q]
      BY <1>1, <1>6, <2>2
    <3>2. private_data[q] \in DOMAIN scull_c_list /\ scull_c_list[private_data[q]] = cred[q].tty
      BY <3>1 DEF Cloned, OneClonePerTty
    <3>3. private_data[q] \in 1 .. n - 1 /\ private_data[q] \in 1 .. n
      BY <1>4, <3>2
    <3>4. scull_c_list'[private_data[q]] = scull_c_list[private_data[q]]
      BY <1>4, <3>3
    <3>5. private_data[q] \in DOMAIN scull_c_list'
      BY <1>4, <3>3
    <3>6. QED
      BY <3>1, <3>2, <3>4, <3>5
  <2>3. QED
    BY <2>1, <2>2
<1>8. private_data' \in [Proc -> Nat]
  BY <1>2, <1>4 DEF Cloned
<1>9. QED
  BY <1>2, <1>4, <1>5, <1>6, <1>7, <1>8 DEF Cloned, OneClonePerTty

LEMMA NoClone ==
    ASSUME Stage, Cloned, NEW p \in Proc, CAllocFails(p)
    PROVE  Cloned'
<1>1. Inside' = Inside /\ UNCHANGED <<minor, cred>>
  BY PassStep DEF Passes
<1>2. /\ opening[p] = "c_alloc" /\ scull_c_lock' = NoProc /\ Goes(p, "")
      /\ UNCHANGED <<private_data, scull_c_list>>
  BY DEF CAllocFails, Fails
<1>3. \A q \in Proc : opening'[q] # "c_alloc"
  BY <1>2 DEF Cloned, Goes, Stage
<1>4. \A q \in Proc : In(q)' => In(q)
  BY <1>1 DEF Inside
<1>5. OneClonePerTty'
  BY <1>1, <1>2, <1>4 DEF Cloned, OneClonePerTty
<1>6. QED
  BY <1>2, <1>3, <1>5 DEF Cloned

LEMMA PassesAway ==
    ASSUME NEW p \in Proc, Passes(p), ~CLookfor(p), ~CAllocFails(p)
    PROVE  /\ UNCHANGED <<scull_c_list, scull_c_lock, private_data>>
           /\ \E o \in OpenStep \ {"c_alloc"} : Goes(p, o)
<1>1. CASE \E flags \in Flags : COpen(p, flags) \/ \E nonblock \in BOOLEAN : WOpen(p, flags, nonblock)
  BY <1>1 DEF COpen, WOpen, Begins, access, OpenStep
<1>2. CASE ~Available(p) /\ WLock(p)
  BY <1>2 DEF WLock, Fails, access, OpenStep
<1>3. CASE WWait(p) \/ WTest(p) \/ WSignal(p)
  BY <1>3 DEF WWait, WTest, WSignal, Fails, access, OpenStep
<1>4. CASE StartTrim(p) \/ EndTrim(p)
  BY <1>4 DEF StartTrim, EndTrim, access, OpenStep
<1>5. QED
  BY <1>1, <1>2, <1>3, <1>4 DEF Passes

LEMMA ClonedStep ==
    ASSUME Stage, Cloned, [AccessNext]_avars
    PROVE  Cloned'
<1>1. CASE UNCHANGED avars
  BY <1>1, SameClones DEF avars, access, vars, Inside, In
<1>2. ASSUME NEW p \in Proc, CLookfor(p) \/ CAlloc(p) \/ CAllocFails(p)
      PROVE  Cloned'
  BY <1>2, FindClone, AddClone, NoClone
<1>3. ASSUME NEW p \in Proc, Lets(p), ~CLookfor(p), ~CAlloc(p)
      PROVE  Cloned'
  <2>1. UNCHANGED <<minor, cred>> /\ \E o \in {"trim", ""} : Goes(p, o)
    BY <1>3, JoinStep
  <2>2. Placed(pc[p], opening[p])
    BY DEF Stage
  <2>3. minor # "priv" /\ UNCHANGED <<scull_c_list, scull_c_lock, private_data>>
    BY <1>3, <2>2 DEF Lets, SOpen, UOpen, WLock, CountMe, Placed, WaitSteps
  <2>4. \A q \in Proc : opening'[q] = "c_alloc" => opening[q] = "c_alloc"
    BY <2>1 DEF Goes, Stage
  <2>5. QED
    BY <2>1, <2>3, <2>4, SameClones
<1>4. ASSUME NEW p \in Proc, Leaves(p)
      PROVE  Cloned'
  <2>1. Inside' \subseteq Inside /\ UNCHANGED <<minor, cred>> /\ \E o \in {"w_wake", ""} : Goes(p, o)
    BY <1>4, LeaveStep
  <2>2. UNCHANGED <<scull_c_list, scull_c_lock, private_data>>
    BY <1>4 DEF Leaves, SRelease, URelease, WRelease, CRelease, access
  <2>3. \A q \in Proc : opening'[q] = "c_alloc" => opening[q] = "c_alloc"
    BY <2>1 DEF Goes, Stage
  <2>4. QED
    BY <2>1, <2>2, <2>3, SameClones
<1>5. ASSUME NEW p \in Proc, Passes(p), ~CLookfor(p), ~CAllocFails(p)
      PROVE  Cloned'
  <2>1. Inside' = Inside /\ UNCHANGED <<minor, cred>>
    BY <1>5, PassStep
  <2>2. /\ UNCHANGED <<scull_c_list, scull_c_lock, private_data>>
        /\ \E o \in OpenStep \ {"c_alloc"} : Goes(p, o)
    BY <1>5, PassesAway
  <2>3. \A q \in Proc : opening'[q] = "c_alloc" => opening[q] = "c_alloc"
    BY <2>2 DEF Goes, Stage
  <2>4. QED
    BY <2>1, <2>2, <2>3, SameClones
<1>6. ASSUME NEW p \in Proc, WWake(p) \/ Uses(p)
      PROVE  Cloned'
  <2>1. Inside' = Inside /\ UNCHANGED <<minor, cred, access>>
    BY <1>6, WakeStep, UseStep
  <2>2. \A q \in Proc : opening'[q] = "c_alloc" => opening[q] = "c_alloc"
    BY <1>6, WakeStep, UseStep
  <2>3. UNCHANGED <<scull_c_list, scull_c_lock, private_data>>
    BY <2>1 DEF access
  <2>4. QED
    BY <2>1, <2>2, <2>3, SameClones
<1>7. ASSUME NEW p \in Proc, SUndo(p) \/ (scull_s_available # 1 /\ \E flags \in Flags : SOpen(p, flags))
      PROVE  Cloned'
  <2>1. Inside' = Inside /\ UNCHANGED <<minor, cred>> /\ \E o \in {"", "s_undo"} : Goes(p, o)
    BY <1>7, UndoStep, RefusedStep
  <2>2. UNCHANGED <<scull_c_list, scull_c_lock, private_data>>
    BY <1>7 DEF SUndo, SOpen
  <2>3. \A q \in Proc : opening'[q] = "c_alloc" => opening[q] = "c_alloc"
    BY <2>1 DEF Goes, Stage
  <2>4. QED
    BY <2>1, <2>2, <2>3, SameClones
<1>8. CASE ~UNCHANGED avars
  <2>1. PICK p \in Proc :
            \/ Lets(p) \/ Leaves(p) \/ Passes(p) \/ SUndo(p) \/ WWake(p) \/ Uses(p)
            \/ scull_s_available # 1 /\ \E flags \in Flags : SOpen(p, flags)
    BY <1>8, StepsAreKnown
  <2>2. CASE CLookfor(p) \/ CAlloc(p) \/ CAllocFails(p)
    BY <2>2, <1>2
  <2>3. CASE ~(CLookfor(p) \/ CAlloc(p) \/ CAllocFails(p))
    <3>1. CASE Lets(p)
      BY <3>1, <2>3, <1>3
    <3>2. CASE Leaves(p)
      BY <3>2, <1>4
    <3>3. CASE Passes(p)
      BY <3>3, <2>3, <1>5
    <3>4. CASE WWake(p) \/ Uses(p)
      BY <3>4, <1>6
    <3>5. CASE SUndo(p) \/ (scull_s_available # 1 /\ \E flags \in Flags : SOpen(p, flags))
      BY <3>5, <1>7
    <3>6. QED
      BY <2>1, <3>1, <3>2, <3>3, <3>4, <3>5
  <2>4. QED
    BY <2>2, <2>3
<1>9. QED
  BY <1>1, <1>8

-----------------------------------------------------------------------------
AccessInv == Stage /\ Counted /\ Cloned /\ SleeperIsWoken

LEMMA AccessInvHolds == AccessSpec => []AccessInv
<1>1. AccessInit => AccessInv
  <2> SUFFICES ASSUME AccessInit PROVE AccessInv
    OBVIOUS
  <2>1. /\ sem = NoProc /\ pc = [p \in Proc |-> "closed"] /\ opening = [p \in Proc |-> ""]
        /\ minor \in Minors /\ cred \in [Proc -> Process]
        /\ scull_s_available = 1 /\ owners = 0 /\ owner \in User
        /\ scull_c_lock = NoProc /\ private_data = [p \in Proc |-> 1]
    BY DEF AccessInit, Init
  <2>2. Stage
    BY <2>1, StoreAssumption DEF Stage, SemInv, SemaphoreDiscipline, Location, OpenStep, Placed, WaitSteps
  <2>3. Inside = {} /\ Undoing = {} /\ \A p \in Proc : ~In(p)
    BY <2>1 DEF Inside, Undoing, In
  <2>4. Cardinality(Inside) = 0 /\ Cardinality(Undoing) = 0
    BY <2>3, FS_EmptySet
  <2>5. CountIsOpenings
    BY <2>1, <2>4 DEF CountIsOpenings, Inside
  <2>6. OneUser /\ SingleOpen /\ OneClonePerTty
    <3>1. DOMAIN scull_c_list = {}
      <4>1. DOMAIN <<>> = {}
        OBVIOUS
      <4>2. scull_c_list = <<>>
        BY DEF AccessInit
      <4>3. QED
        BY <4>1, <4>2
    <3>2. QED
      BY <2>3, <3>1 DEF OneUser, SingleOpen, OneClonePerTty
  <2>7. Counted
    <3>1. owners = 0 /\ scull_s_available = 1 /\ owner \in User
      BY DEF AccessInit
    <3>2. scull_s_available = 1 - Cardinality(Inside) - Cardinality(Undoing)
      BY <2>4, <3>1
    <3>3. QED
      BY <2>5, <2>6, <3>1, <3>2 DEF Counted
  <2>8. \A p \in Proc : opening[p] \notin {"c_alloc", "w_asleep"}
    BY <2>1
  <2>9. Cloned
    <3>1. scull_c_list \in Seq(Tty)
      <4>1. <<>> \in Seq(Tty)
        OBVIOUS
      <4>2. scull_c_list = <<>>
        BY DEF AccessInit
      <4>3. QED
        BY <4>1, <4>2
    <3>2. private_data \in [Proc -> Nat]
      BY <2>1
    <3>3. scull_c_lock \in Proc \cup {NoProc}
      BY <2>1
    <3>4. QED
      BY <3>1, <3>2, <3>3, <2>6, <2>8 DEF Cloned
  <2>10. SleeperIsWoken
    BY <2>8 DEF SleeperIsWoken
  <2>11. QED
    BY <2>2, <2>7, <2>9, <2>10 DEF AccessInv
<1>2. AccessInv /\ [AccessNext]_avars => AccessInv'
  BY CountedStep, SleeperStep, ClonedStep DEF AccessInv
<1>3. QED
  BY <1>1, <1>2, PTL DEF AccessSpec

(* sculluid and scullwuid, any number of users and processes: whoever has  *)
(* the device open owns it by a real or effective id, or may override.     *)
THEOREM OpenToOneUser == AccessSpec => []OneUser
<1>1. AccessInv => OneUser
  BY DEF AccessInv, Counted
<1>2. QED
  BY <1>1, AccessInvHolds, PTL

(* The count of sculluid and scullwuid is that of the openings, so that    *)
(* the device is neither freed early nor kept for ever.                    *)
THEOREM OpeningsAreCounted == AccessSpec => []CountsAreRight
<1>1. AccessInv => CountsAreRight
  BY DEF AccessInv, Stage, Counted, Cloned, CountsAreRight, AccessTypeOK
<1>2. QED
  BY <1>1, AccessInvHolds, PTL

(* scullsingle is open once at most whatever opens race, and its trims     *)
(* without the semaphore meet nobody.                                      *)
THEOREM SingleHasNoCompany == AccessSpec => []SingleIsAlone
<1>1. AccessInv => SingleIsAlone
  <2> SUFFICES ASSUME AccessInv, minor = "single", NEW p \in Proc, Trimming(p)
               PROVE  /\ sem = NoProc
                      /\ \A q \in Proc \ {p} : ~(Trimming(q) /\ private_data[q] = private_data[p])
    BY DEF AccessInv, Counted, SingleIsAlone, SingleTrimsAlone, TrimAlone
  <2>1. pc[p] = "opening" /\ In(p)
    BY DEF AccessInv, Stage, Placed, Trimming, In
  <2>2. \A q \in Proc : In(q) => q = p
    BY <2>1 DEF AccessInv, Counted, SingleOpen
  <2>3. sem = NoProc
    BY <2>1, <2>2 DEF AccessInv, Stage, SemInv, SemaphoreDiscipline, In
  <2>4. QED
    BY <2>2, <2>3 DEF Trimming, In
<1>2. QED
  BY <1>1, AccessInvHolds, PTL

(* The wait of scullwuid loses no wake-up although its condition is read   *)
(* without the lock that the release changes it under.                     *)
THEOREM SleepersAreWoken == AccessSpec => []SleeperIsWoken
<1>1. AccessInv => SleeperIsWoken
  BY DEF AccessInv
<1>2. QED
  BY <1>1, AccessInvHolds, PTL

(* scullpriv: however opens race, a terminal has one clone, and all its    *)
(* processes use that one.                                                 *)
THEOREM TerminalsHaveOneClone == AccessSpec => []OneClonePerTty
<1>1. AccessInv => OneClonePerTty
  BY DEF AccessInv, Cloned
<1>2. QED
  BY <1>1, AccessInvHolds, PTL
=============================================================================
