------------------------------ MODULE ScullBare ------------------------------
(***************************************************************************)
(* The bare scull device: scull_open() and scull_release() of              *)
(* scull/main.c over the memory of ScullStore.                             *)
(***************************************************************************)
EXTENDS ScullStore

Open(p, flags) ==
    /\ pc[p] = "closed"
    /\ f_flags' = [f_flags EXCEPT ![p] = flags]
    /\ GoTo(p, IF flags = "O_WRONLY" THEN "opening" ELSE "idle")
    /\ UNCHANGED <<settings, device, sem, f_pos, call, dangling>>

(* Mutant: the device is emptied without its semaphore.                    *)
OpenTrimAtOnce(p) ==
    /\ pc[p] = "opening"
    /\ Trim
    /\ GoTo(p, "idle")
    /\ UNCHANGED <<settings, sem, f_flags, f_pos, call>>

(* A write-only open empties the device, under the semaphore.              *)
OpenTrim(p) ==
    /\ pc[p] = "opening" /\ sem = NoProc
    /\ Trim
    /\ GoTo(p, "idle")
    /\ UNCHANGED <<settings, sem, f_flags, f_pos, call>>

OpenInterrupted(p) ==
    /\ pc[p] = "opening" /\ sem # NoProc
    /\ f_flags' = [f_flags EXCEPT ![p] = ""]
    /\ GoTo(p, "closed")
    /\ UNCHANGED <<settings, device, sem, f_pos, call, dangling>>

Next ==
    \E p \in Proc :
        \/ \E flags \in Flags : Open(p, flags)
        \/ OpenTrim(p) \/ OpenInterrupted(p)
        \/ FileOps(p) \/ Steps(p) \/ Settings(p) \/ Release(p)

Spec == Init /\ [][Next]_vars

(* The behaviours in which nobody changes the settings after loading.      *)
FixedNext ==
    \E p \in Proc :
        \/ \E flags \in Flags : Open(p, flags)
        \/ OpenTrim(p) \/ OpenInterrupted(p)
        \/ FileOps(p) \/ Steps(p) \/ Release(p)

FixedSpec == Init /\ [][FixedNext]_vars

(* With settings that stay what they were at load time, no process indexes *)
(* outside an array, copies outside a quantum or follows a freed pointer,  *)
(* whatever the order of opens, reads, writes and seeks.                   *)
NeverWild == \A p \in Proc : pc[p] # "wild"

(* A trim waits for the copy under way: nothing is freed under it, whatever *)
(* the settings do.                                                        *)
NothingFreedUnderACopy == \A p \in dangling : pc[p] \notin {"r_copy", "w_copy"}

(* The device implements a file with holes: a read returns what was last   *)
(* written where it reads, a write changes no other byte, whatever the     *)
(* way the bytes are spread over items and quanta.                         *)
File == INSTANCE SparseFile WITH content <- Contents, pos <- f_pos, Byte <- Byte \cup {Junk}

IsSparseFile == File!Spec

(* scull.h:59-62: "an array of pointers, each pointer refers to a memory   *)
(* area of SCULL_QUANTUM bytes.  The array (quantum-set) is SCULL_QSET     *)
(* long."                                                                  *)
LayoutKept == Layout
=============================================================================
