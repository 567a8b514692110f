----------------------------- MODULE MepaRegistry -----------------------------
(***************************************************************************)
(* The driver registry of the common layer (mepa/common/src/phy.c): the    *)
(* static table MEPA_phy_lib, filled by the first call of mepa_create, and *)
(* the probe loop that turns a PHY id into a device.                       *)
(*                                                                         *)
(* MEPA_phy_lib and MEPA_init_done are globals of the library that no lock *)
(* protects: mepa_create has no device yet, hence no lock callout to use.  *)
(* Every access to them is therefore a step of its own.                    *)
(***************************************************************************)
EXTENDS Integers

CONSTANTS Threads,      \* application threads that create devices
          N,            \* families built into the library, in table order
          PhyIds,       \* what mepa_phy_id_get can return
          Match,        \* Match[f]: the ids some driver of family f accepts
          Serialized    \* TRUE when the application creates devices one at a time

ASSUME RegistryAssumption ==
    /\ N \in Nat \ {0}
    /\ Match \in [1..N -> SUBSET PhyIds]
    /\ Serialized \in BOOLEAN

Families == 1..N

VARIABLES MEPA_init_done,  \* the init flag
          MEPA_phy_lib,    \* the families whose table entry has been written
          pc,              \* where each thread is in mepa_create
          i,               \* its loop index
          phy_id,          \* the id it looks for
          failed,          \* history: the families whose probe returned 0 in this call
          dev              \* the family of the device it returned, 0 for none

vars == <<MEPA_init_done, MEPA_phy_lib, pc, i, phy_id, failed, dev>>

Init ==
    /\ MEPA_init_done = 0
    /\ MEPA_phy_lib = {}
    /\ pc = [t \in Threads |-> "idle"]
    /\ i = [t \in Threads |-> 0]
    /\ phy_id \in [Threads -> PhyIds]
    /\ failed = [t \in Threads |-> {}]
    /\ dev = [t \in Threads |-> 0]

Goto(t, label, index) ==
    /\ pc' = [pc EXCEPT ![t] = label]
    /\ i' = [i EXCEPT ![t] = index]

\* A thread calls mepa_create for a port with some PHY on it.
Call(t) ==
    /\ pc[t] = "idle"
    /\ Serialized => \A u \in Threads : pc[u] = "idle"
    /\ \E id \in PhyIds : phy_id' = [phy_id EXCEPT ![t] = id]
    /\ failed' = [failed EXCEPT ![t] = {}]
    /\ dev' = [dev EXCEPT ![t] = 0]
    /\ Goto(t, "check", 0)
    /\ UNCHANGED <<MEPA_init_done, MEPA_phy_lib>>

\* if (!MEPA_init_done)
Check(t) ==
    /\ pc[t] = "check"
    /\ \/ MEPA_init_done = 1 /\ Goto(t, "scan", 1)
       \/ MEPA_init_done = 0 /\ Goto(t, "mark", 0)
    /\ UNCHANGED <<MEPA_init_done, MEPA_phy_lib, phy_id, failed, dev>>

\* MEPA_init_done = 1, before any entry of the table is written.
Mark(t) ==
    /\ pc[t] = "mark"
    /\ MEPA_init_done' = 1
    /\ Goto(t, "fill", 1)
    /\ UNCHANGED <<MEPA_phy_lib, phy_id, failed, dev>>

\* Mutant of Fill: the loop runs one entry past the table.
FillPastEnd(t) ==
    /\ pc[t] = "fill"
    /\ MEPA_phy_lib' = MEPA_phy_lib \cup {i[t]}
    /\ \/ i[t] = N + 1 /\ Goto(t, "scan", 1)
       \/ i[t] <= N /\ Goto(t, "fill", i[t] + 1)
    /\ UNCHANGED <<MEPA_init_done, phy_id, failed, dev>>

\* Mutant of Fill: the entry marked "Shall be last" is forgotten.
FillNoDefault(t) ==
    /\ pc[t] = "fill"
    /\ MEPA_phy_lib' = MEPA_phy_lib \cup ({i[t]} \ {N})
    /\ \/ i[t] = N /\ Goto(t, "scan", 1)
       \/ i[t] < N /\ Goto(t, "fill", i[t] + 1)
    /\ UNCHANGED <<MEPA_init_done, phy_id, failed, dev>>

\* MEPA_phy_lib[i] = mepa_..._driver_init(), one entry at a time. Rewriting an
\* entry that is there stores the same pointer and count.
Fill(t) ==
    /\ pc[t] = "fill"
    /\ MEPA_phy_lib' = MEPA_phy_lib \cup {i[t]}
    /\ \/ i[t] = N /\ Goto(t, "scan", 1)
       \/ i[t] < N /\ Goto(t, "fill", i[t] + 1)
    /\ UNCHANGED <<MEPA_init_done, phy_id, failed, dev>>

Accepts(f, id) == f \in MEPA_phy_lib /\ id \in Match[f]

\* The probe loop at an entry that is empty or has no matching driver.
Skip(t) ==
    /\ pc[t] = "scan"
    /\ i[t] \in Families
    /\ ~Accepts(i[t], phy_id[t])
    /\ Goto(t, "scan", i[t] + 1)
    /\ UNCHANGED <<MEPA_init_done, MEPA_phy_lib, phy_id, failed, dev>>

\* A matching driver's probe creates the device.
Probe(t) ==
    /\ pc[t] = "scan"
    /\ i[t] \in Families
    /\ Accepts(i[t], phy_id[t])
    /\ dev' = [dev EXCEPT ![t] = i[t]]
    /\ Goto(t, "done", i[t])
    /\ UNCHANGED <<MEPA_init_done, MEPA_phy_lib, phy_id, failed>>

\* Mutant of ProbeFails: the same driver is tried again instead of the next one.
ProbeFailsRetry(t) ==
    /\ pc[t] = "scan"
    /\ i[t] \in Families
    /\ Accepts(i[t], phy_id[t])
    /\ failed' = [failed EXCEPT ![t] = {i[t]} \ @]
    /\ UNCHANGED <<MEPA_init_done, MEPA_phy_lib, pc, i, phy_id, dev>>

\* A matching driver's probe returns 0 (mem_alloc failed, a callout it needs is
\* missing) and the loop goes on with the next driver.
ProbeFails(t) ==
    /\ pc[t] = "scan"
    /\ i[t] \in Families
    /\ Accepts(i[t], phy_id[t])
    /\ failed' = [failed EXCEPT ![t] = @ \cup {i[t]}]
    /\ Goto(t, "scan", i[t] + 1)
    /\ UNCHANGED <<MEPA_init_done, MEPA_phy_lib, phy_id, dev>>

\* The loop ended without a device: return 0.
NoDevice(t) ==
    /\ pc[t] = "scan"
    /\ i[t] = N + 1
    /\ Goto(t, "done", 0)
    /\ UNCHANGED <<MEPA_init_done, MEPA_phy_lib, phy_id, failed, dev>>

\* The caller takes the result.
Return(t) ==
    /\ pc[t] = "done"
    /\ Goto(t, "idle", 0)
    /\ UNCHANGED <<MEPA_init_done, MEPA_phy_lib, phy_id, failed, dev>>

Step(t) == Check(t) \/ Mark(t) \/ Fill(t) \/ Skip(t) \/ Probe(t) \/ ProbeFails(t)
           \/ NoDevice(t) \/ Return(t)

Next == \E t \in Threads : Call(t) \/ Step(t)

\* A thread inside mepa_create keeps running; nobody is obliged to call it.
Fairness == \A t \in Threads : WF_vars(Step(t))

Spec == Init /\ [][Next]_vars /\ Fairness

-----------------------------------------------------------------------------
TypeOK ==
    /\ MEPA_init_done \in {0, 1}
    /\ MEPA_phy_lib \subseteq Families
    /\ pc \in [Threads -> {"idle", "check", "mark", "fill", "scan", "done"}]
    /\ i \in [Threads -> 0..(N + 1)]
    /\ phy_id \in [Threads -> PhyIds]
    /\ failed \in [Threads -> SUBSET Families]
    /\ dev \in [Threads -> 0..N]

\* The families whose probe should be tried for the id t looks for.
Candidates(t) == {f \in Families : phy_id[t] \in Match[f]} \ failed[t]

(* What mepa_create promises whoever calls it first ("Raise conditions does
   not matter here ... do no harm", phy.c:216): the device belongs to the first
   family of the table that accepts the PHY id and whose probe does not fail,
   and no device is returned only when there is no such family. The families
   overlap (the last driver accepts every id), so a scan of a table that is
   still being filled silently picks the wrong driver. *)
FirstMatchingDriver ==
    \A t \in Threads :
        pc[t] = "done" =>
            IF dev[t] = 0 THEN Candidates(t) = {}
            ELSE /\ dev[t] \in Candidates(t)
                 /\ \A f \in Candidates(t) : dev[t] <= f

(* Every mepa_create returns: the fill and probe loops of phy.c are bounded
   whatever other threads do to the table. *)
CreateReturns == \A t \in Threads : pc[t] = "check" ~> pc[t] = "done"

-----------------------------------------------------------------------------
(* The strengthening that makes FirstMatchingDriver inductive when devices
   are created one at a time. *)

FillProgress ==
    \A t \in Threads : pc[t] = "fill" => i[t] \in Families /\ 1..(i[t] - 1) \subseteq MEPA_phy_lib

OneInside == \A t, u \in Threads : pc[t] # "idle" /\ pc[u] # "idle" => t = u

FilledBeforeUse ==
    MEPA_init_done = 1 => \/ MEPA_phy_lib = Families
                          \/ \E t \in Threads : pc[t] = "fill"

ScanProgress ==
    \A t \in Threads :
        /\ pc[t] \in {"check", "mark", "fill"} => dev[t] = 0 /\ failed[t] = {}
        /\ pc[t] = "scan" => /\ MEPA_phy_lib = Families
                             /\ i[t] \in 1..(N + 1)
                             /\ dev[t] = 0
                             /\ \A f \in failed[t] : f < i[t]
                             /\ \A f \in Candidates(t) : f >= i[t]

SerialInv == /\ TypeOK
             /\ FillProgress
             /\ Serialized => /\ OneInside
                              /\ FilledBeforeUse
                              /\ ScanProgress
                              /\ FirstMatchingDriver
=============================================================================
