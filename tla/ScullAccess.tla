----------------------------- MODULE ScullAccess -----------------------------
(***************************************************************************)
(* scull/access.c: four devices with the memory and file operations of     *)
(* ScullStore behind other opens.  "scullsingle" is open once at a time,   *)
(* "sculluid" by one user at a time, "scullwuid" makes other users wait,   *)
(* and "scullpriv" is a private device for each terminal.  The four share  *)
(* nothing but the settings, so a behaviour follows one of them.           *)
(*                                                                         *)
(* None of these opens takes dev->sem around scull_trim.  A trim is        *)
(* therefore an interval here, from StartTrim to EndTrim.                  *)
(***************************************************************************)
EXTENDS ScullStore

CONSTANTS
    Minors,     \* the devices a behaviour may follow
    User,       \* user ids
    Tty,        \* controlling terminals
    Process     \* what a process is: records of uid, euid, capable, tty

Minor == {"single", "uid", "wuid", "priv"}

ASSUME AccessAssumption ==
    /\ Minors \subseteq Minor
    /\ Process \subseteq [uid : User, euid : User, capable : BOOLEAN, tty : Tty]
    /\ IsFiniteSet(Proc)

VARIABLES
    minor,              \* the device of this behaviour
    cred,               \* the credentials and the terminal of each process
    opening,            \* where a process is in its open or release, or ""
    scull_s_available,
    owners,             \* scull_u_count or scull_w_count
    owner,              \* scull_u_owner or scull_w_owner
    scull_c_list,       \* the keys of the clones, oldest first
    scull_c_lock,       \* the process that holds the spinlock, or NoProc
    private_data        \* which clone a file uses: a place in the list; 1 elsewhere

access == <<scull_s_available, owners, owner, scull_c_list, scull_c_lock, private_data>>
avars  == <<vars, minor, cred, opening, access>>

OpenStep == {"", "s_undo", "w_lock", "w_try", "w_wait", "w_queued", "w_asleep", "w_wake",
             "c_lookfor", "c_alloc", "trim", "trimming"}

(* The variables of ScullStore have the types of its own TypeOK.           *)
AccessTypeOK ==
    /\ minor \in Minors
    /\ cred \in [Proc -> Process]
    /\ opening \in [Proc -> OpenStep]
    /\ scull_s_available \in Int
    /\ owners \in Nat
    /\ owner \in User
    /\ scull_c_list \in Seq(Tty)
    /\ scull_c_lock \in Proc \cup {NoProc}
    /\ private_data \in [Proc -> Nat]

AccessInit ==
    /\ Init
    /\ minor \in Minors
    /\ cred \in [Proc -> Process]
    /\ opening = [p \in Proc |-> ""]
    /\ scull_s_available = 1
    /\ owners = 0 /\ owner \in User
    /\ scull_c_list = <<>> /\ scull_c_lock = NoProc
    /\ private_data = [p \in Proc |-> 1]

Goes(p, step) == opening' = [opening EXCEPT ![p] = step]

(* How an open begins, fails, and succeeds.                                *)
Begins(p, flags, step) ==
    /\ pc[p] = "closed" /\ opening[p] = ""
    /\ f_flags' = [f_flags EXCEPT ![p] = flags]
    /\ GoTo(p, "opening") /\ Goes(p, step)
    /\ UNCHANGED <<settings, device, sem, f_pos, call, dangling>>

Fails(p) ==
    /\ f_flags' = [f_flags EXCEPT ![p] = ""]
    /\ GoTo(p, "closed") /\ Goes(p, "")
    /\ UNCHANGED <<settings, device, sem, f_pos, call, dangling>>

Admitted(p) ==
    /\ Goes(p, IF f_flags'[p] = "O_WRONLY" THEN "trim" ELSE "")
    /\ GoTo(p, IF f_flags'[p] = "O_WRONLY" THEN "opening" ELSE "idle")
    /\ UNCHANGED <<settings, device, sem, f_pos, call, dangling>>

StartTrim(p) ==
    /\ opening[p] = "trim"
    /\ Goes(p, "trimming")
    /\ UNCHANGED <<vars, minor, cred, access>>

(* The memory of a clone that is not the first is not followed.            *)
EndTrim(p) ==
    /\ opening[p] = "trimming"
    /\ IF private_data[p] = 1 THEN Trim ELSE UNCHANGED <<device, dangling>>
    /\ GoTo(p, "idle") /\ Goes(p, "")
    /\ UNCHANGED <<settings, sem, f_flags, f_pos, call, minor, cred, access>>

-----------------------------------------------------------------------------
(* scullsingle                                                             *)

SOpen(p, flags) ==
    /\ minor = "single"
    /\ pc[p] = "closed" /\ opening[p] = ""
    /\ scull_s_available' = scull_s_available - 1
    /\ \/ /\ scull_s_available = 1
          /\ f_flags' = [f_flags EXCEPT ![p] = flags]
          /\ Admitted(p)
       \/ /\ scull_s_available # 1
          /\ Begins(p, flags, "s_undo")
    /\ UNCHANGED <<minor, cred, owners, owner, scull_c_list, scull_c_lock, private_data>>

(* The count is put right, and the open ends with -EBUSY.                  *)
(* Mutant: the -EBUSY path gives back what was not taken, too.              *)
SUndoTwice(p) ==
    /\ opening[p] = "s_undo"
    /\ scull_s_available' = scull_s_available + 2
    /\ Fails(p)
    /\ UNCHANGED <<minor, cred, owners, owner, scull_c_list, scull_c_lock, private_data>>

SUndo(p) ==
    /\ opening[p] = "s_undo"
    /\ scull_s_available' = scull_s_available + 1
    /\ Fails(p)
    /\ UNCHANGED <<minor, cred, owners, owner, scull_c_list, scull_c_lock, private_data>>

SRelease(p) ==
    /\ minor = "single"
    /\ Release(p)
    /\ scull_s_available' = scull_s_available + 1
    /\ UNCHANGED <<opening, minor, cred, owners, owner, scull_c_list, scull_c_lock, private_data>>

-----------------------------------------------------------------------------
(* sculluid and scullwuid                                                  *)

(* scull_w_available(), and the condition scull_u_open denies.             *)
Available(p) == owners = 0 \/ owner \in {cred[p].uid, cred[p].euid} \/ cred[p].capable

(* Mutant: every open makes its user the owner.                            *)
CountMeAlways(p) ==
    /\ owner' = cred[p].uid
    /\ owners' = owners + 1
    /\ UNCHANGED <<scull_s_available, scull_c_list, scull_c_lock, private_data>>

CountMe(p) ==
    /\ owner' = IF owners = 0 THEN cred[p].uid ELSE owner
    /\ owners' = owners + 1
    /\ UNCHANGED <<scull_s_available, scull_c_list, scull_c_lock, private_data>>

(* A denied open returns -EBUSY and changes nothing.                       *)
UOpen(p, flags) ==
    /\ minor = "uid"
    /\ pc[p] = "closed" /\ opening[p] = ""
    /\ Available(p)
    /\ CountMe(p)
    /\ f_flags' = [f_flags EXCEPT ![p] = flags]
    /\ Admitted(p)
    /\ UNCHANGED <<minor, cred>>

URelease(p) ==
    /\ minor = "uid"
    /\ Release(p)
    /\ owners' = owners - 1
    /\ UNCHANGED <<opening, minor, cred, owner, scull_s_available, scull_c_list, scull_c_lock, private_data>>

(* An O_NONBLOCK open tries once.                                          *)
WOpen(p, flags, nonblock) ==
    /\ minor = "wuid"
    /\ Begins(p, flags, IF nonblock THEN "w_try" ELSE "w_lock")
    /\ UNCHANGED <<minor, cred, access>>

(* The test under scull_w_lock.                                            *)
WLock(p) ==
    /\ opening[p] \in {"w_lock", "w_try"}
    /\ \/ /\ Available(p)
          /\ CountMe(p)
          /\ UNCHANGED f_flags
          /\ Admitted(p)
       \/ /\ ~Available(p) /\ opening[p] = "w_try"           \* -EAGAIN
          /\ Fails(p)
          /\ UNCHANGED access
       \/ /\ ~Available(p) /\ opening[p] = "w_lock"
          /\ Goes(p, "w_wait")
          /\ UNCHANGED <<vars, access>>
    /\ UNCHANGED <<minor, cred>>

(* wait_event_interruptible(): the condition is tested, without the lock,  *)
(* before queueing and again before each sleep.                            *)
WWait(p) ==
    /\ opening[p] = "w_wait"
    /\ Goes(p, IF Available(p) THEN "w_lock" ELSE "w_queued")
    /\ UNCHANGED <<vars, minor, cred, access>>

WTest(p) ==
    /\ opening[p] = "w_queued"
    /\ Goes(p, IF Available(p) THEN "w_lock" ELSE "w_asleep")
    /\ UNCHANGED <<vars, minor, cred, access>>

(* Mutant: a wait that ends by a signal is taken off the count.            *)
WSignalUncounts(p) ==
    /\ opening[p] \in {"w_queued", "w_asleep"} /\ ~Available(p)
    /\ Fails(p)
    /\ owners' = owners - 1
    /\ UNCHANGED <<minor, cred, scull_s_available, owner, scull_c_list, scull_c_lock, private_data>>

(* A signal ends the wait with -ERESTARTSYS.                               *)
WSignal(p) ==
    /\ opening[p] \in {"w_queued", "w_asleep"} /\ ~Available(p)
    /\ Fails(p)
    /\ UNCHANGED <<minor, cred, access>>

(* Mutant: the last process out does not wake the others.                  *)
WReleaseQuietly(p) ==
    /\ minor = "wuid"
    /\ Release(p)
    /\ owners' = owners - 1
    /\ UNCHANGED <<opening, minor, cred, owner, scull_s_available, scull_c_list, scull_c_lock, private_data>>

WRelease(p) ==
    /\ minor = "wuid"
    /\ Release(p)
    /\ owners' = owners - 1
    /\ Goes(p, IF owners' = 0 THEN "w_wake" ELSE "")
    /\ UNCHANGED <<minor, cred, owner, scull_s_available, scull_c_list, scull_c_lock, private_data>>

(* wake_up_interruptible_sync(), outside the lock.                         *)
WWake(p) ==
    /\ opening[p] = "w_wake"
    /\ opening' = [q \in Proc |-> IF q = p THEN ""
                                  ELSE IF opening[q] = "w_asleep" THEN "w_queued" ELSE opening[q]]
    /\ UNCHANGED <<vars, minor, cred, access>>

-----------------------------------------------------------------------------
(* scullpriv                                                               *)

COpen(p, flags) ==
    /\ minor = "priv"
    /\ Begins(p, flags, "c_lookfor")
    /\ UNCHANGED <<minor, cred, access>>

Clones(key) == {i \in DOMAIN scull_c_list : scull_c_list[i] = key}

(* Mutant: the spinlock is not held over the allocation.                   *)
CLookforUnlocked(p) ==
    /\ opening[p] = "c_lookfor"
    /\ \/ /\ \E i \in Clones(cred[p].tty) : private_data' = [private_data EXCEPT ![p] = i]
          /\ UNCHANGED <<f_flags, scull_c_lock>>
          /\ Admitted(p)
       \/ /\ Clones(cred[p].tty) = {}
          /\ Goes(p, "c_alloc")
          /\ UNCHANGED <<vars, private_data, scull_c_lock>>
    /\ UNCHANGED <<minor, cred, scull_s_available, owners, owner, scull_c_list>>

(* scull_c_lookfor_device(), under the spinlock: the clone of the terminal *)
(* is found, or one is allocated, which can fail.                          *)
CLookfor(p) ==
    /\ opening[p] = "c_lookfor" /\ scull_c_lock = NoProc
    /\ \/ /\ \E i \in Clones(cred[p].tty) : private_data' = [private_data EXCEPT ![p] = i]
          /\ UNCHANGED <<f_flags, scull_c_lock>>
          /\ Admitted(p)
       \/ /\ Clones(cred[p].tty) = {}
          /\ scull_c_lock' = p
          /\ Goes(p, "c_alloc")
          /\ UNCHANGED <<vars, private_data>>
    /\ UNCHANGED <<minor, cred, scull_s_available, owners, owner, scull_c_list>>

(* scull_trim gives the new device the settings of the day.                *)
CAlloc(p) ==
    /\ opening[p] = "c_alloc"
    /\ scull_c_list' = Append(scull_c_list, cred[p].tty)
    /\ private_data' = [private_data EXCEPT ![p] = Len(scull_c_list')]
    /\ scull_c_lock' = NoProc
    /\ IF scull_c_list = <<>> THEN Trim ELSE UNCHANGED <<device, dangling>>
    /\ Goes(p, IF f_flags[p] = "O_WRONLY" THEN "trim" ELSE "")
    /\ GoTo(p, IF f_flags[p] = "O_WRONLY" THEN "opening" ELSE "idle")
    /\ UNCHANGED <<settings, sem, f_flags, f_pos, call, minor, cred, scull_s_available, owners, owner>>

CAllocFails(p) ==
    /\ opening[p] = "c_alloc"
    /\ scull_c_lock' = NoProc
    /\ Fails(p)
    /\ UNCHANGED <<minor, cred, scull_s_available, owners, owner, scull_c_list, private_data>>

CRelease(p) ==
    /\ minor = "priv"
    /\ Release(p)
    /\ UNCHANGED <<opening, minor, cred, access>>

-----------------------------------------------------------------------------
Opens(p) ==
    \/ \E flags \in Flags :
          \/ SOpen(p, flags) \/ UOpen(p, flags) \/ COpen(p, flags)
          \/ \E nonblock \in BOOLEAN : WOpen(p, flags, nonblock)
    \/ SUndo(p)
    \/ WLock(p) \/ WWait(p) \/ WTest(p) \/ WSignal(p) \/ WWake(p)
    \/ CLookfor(p) \/ CAlloc(p) \/ CAllocFails(p)
    \/ StartTrim(p) \/ EndTrim(p)
    \/ SRelease(p) \/ URelease(p) \/ WRelease(p) \/ CRelease(p)

(* Files on the first clone, or on the device that is not private.         *)
Uses(p) ==
    /\ private_data[p] = 1
    /\ FileOps(p) \/ Steps(p) \/ Settings(p)
    /\ UNCHANGED <<minor, cred, opening, access>>

AccessNext == \E p \in Proc : Opens(p) \/ Uses(p)

AccessSpec == AccessInit /\ [][AccessNext]_avars

-----------------------------------------------------------------------------
(* A process whose open has succeeded, or is past every check.             *)
In(p) == pc[p] \notin {"closed", "opening"} \/ opening[p] \in {"trim", "trimming"}

(* scullsingle is open at most once, whatever opens and releases race.     *)
SingleOpen == minor = "single" => \A p, q \in Proc : In(p) /\ In(q) => p = q

(* sculluid and scullwuid: all who have the device open are, by their real *)
(* or effective id, the user who opened it first, or may override.         *)
OneUser ==
    minor \in {"uid", "wuid"} => \A p \in Proc : In(p) =>
        owner \in {cred[p].uid, cred[p].euid} \/ cred[p].capable

(* The count is that of the openings, so the device becomes free when the  *)
(* last one ends and not before.                                           *)
CountIsOpenings == minor \in {"uid", "wuid"} => owners = Cardinality({p \in Proc : In(p)})

(* A process asleep in scull_w_open while the device is available to it is *)
(* about to be woken by a release.                                         *)
SleeperIsWoken ==
    \A p \in Proc : opening[p] = "w_asleep" /\ Available(p) =>
        \E q \in Proc : opening[q] = "w_wake"

(* A terminal has one clone, and all its processes use it.                 *)
OneClonePerTty ==
    /\ \A i, j \in DOMAIN scull_c_list : scull_c_list[i] = scull_c_list[j] => i = j
    /\ minor = "priv" => \A p \in Proc : In(p) =>
           private_data[p] \in DOMAIN scull_c_list /\ scull_c_list[private_data[p]] = cred[p].tty

(* main.c:52-53: scull_trim "must be called with the device semaphore      *)
(* held": no process copies, or trims as well, while one trims.            *)
Trimming(p)  == opening[p] = "trimming"
TrimAlone ==
    \A p \in Proc : Trimming(p) =>
        /\ sem = NoProc
        /\ \A q \in Proc \ {p} : ~(Trimming(q) /\ private_data[q] = private_data[p])

(* scullsingle gets away without the semaphore: its opens are alone.       *)
SingleTrimsAlone == minor = "single" => TrimAlone

(* scullsingle has one user at a time, and so nobody to meet in its trim.  *)
SingleIsAlone == SingleOpen /\ SingleTrimsAlone

(* sculluid and scullwuid: the owner lasts as long as the openings.        *)
CountsAreRight == AccessTypeOK /\ CountIsOpenings
=============================================================================
