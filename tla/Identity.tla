------------------------------ MODULE Identity ------------------------------
(***************************************************************************)
(* The agent's identity files, uid and then key (internal/auth): several   *)
(* agents of one user start at the same time, each reading a file or       *)
(* creating it with O_EXCL, write, sync and close, while agents are killed,*)
(* the machine loses power and the system calls fail.                      *)
(***************************************************************************)
EXTENDS Naturals, FiniteSets

CONSTANTS Agents,     \* processes that share the configuration directory
          MaxStarts   \* bound: starts in a behaviour

ASSUME IdentityAssumption == IsFiniteSet(Agents) /\ MaxStarts \in Nat

VARIABLES
  file,       \* each file: "absent", "partial" (created, not written) or "whole"
  synced,     \* files whose content is on disk
  made,       \* values created so far for each file; names the newest
  value,      \* the value a whole file holds
  completed,  \* values whose createPrivateFile returned nil (history)
  pc,         \* progress of each agent
  at,         \* the file it is loading
  got,        \* the values it has loaded, None before that
  early,      \* agents that read a file while it was being created (history)
  starts

diskVars == <<file, synced, made, value, completed>>
procVars == <<pc, at, got, early>>
vars == <<diskVars, procVars, starts>>

Files == {"uid", "key"}
None == 0
Unloaded == [f \in Files |-> None]
Creating == {"write", "sync", "close", "cleanup"}
Over == {"down", "failed", "refused"}
Loading == {"look", "read", "create"}

-----------------------------------------------------------------------------
(* LoadOrCreateUID and LoadOrCreateKey *)

\* main starts with the uid.
Start(p) ==
  /\ pc[p] \in Over /\ starts < MaxStarts
  /\ starts' = starts + 1
  /\ pc' = [pc EXCEPT ![p] = "look"]
  /\ at' = [at EXCEPT ![p] = "uid"]
  /\ got' = [got EXCEPT ![p] = Unloaded]
  /\ early' = early \ {p}
  /\ UNCHANGED diskVars

\* os.Lstat.
Look(p) ==
  /\ pc[p] = "look"
  /\ pc' = [pc EXCEPT ![p] = IF file[at[p]] = "absent" THEN "create" ELSE "read"]
  /\ UNCHANGED <<diskVars, at, got, early, starts>>

\* The value v is loaded: on to the key, or the agent runs.
Loaded(p, v) ==
  /\ got' = [got EXCEPT ![p][at[p]] = v]
  /\ at' = [at EXCEPT ![p] = "key"]
  /\ pc' = [pc EXCEPT ![p] = IF at[p] = "uid" THEN "look" ELSE "running"]

\* Some agent is in the middle of creating f and may yet remove it.
Withdrawable(f) == \E q \in Agents : at[q] = f /\ pc[q] \in Creating

\* Mutant of Read: the content of a file that is there is not checked.
ReadUnchecked(p) ==
  /\ pc[p] = "read"
  /\ IF file[at[p]] # "absent"
       THEN /\ Loaded(p, value[at[p]])
            /\ early' = IF Withdrawable(at[p]) THEN early \cup {p} ELSE early
       ELSE /\ pc' = [pc EXCEPT ![p] = "failed"]
            /\ UNCHANGED <<at, got, early>>
  /\ UNCHANGED <<diskVars, starts>>

\* os.ReadFile and the check of the content; the file may be gone by now.
Read(p) ==
  /\ pc[p] = "read"
  /\ IF file[at[p]] = "whole"
       THEN /\ Loaded(p, value[at[p]])
            /\ early' = IF Withdrawable(at[p]) THEN early \cup {p} ELSE early
       ELSE /\ pc' = [pc EXCEPT ![p] = IF file[at[p]] = "partial" THEN "refused" ELSE "failed"]
            /\ UNCHANGED <<at, got, early>>
  /\ UNCHANGED <<diskVars, starts>>

-----------------------------------------------------------------------------
(* createPrivateFile *)

\* Mutant of MayCreate: the file is opened without O_EXCL.
MayCreateAny(f) == TRUE

MayCreate(f) == file[f] = "absent"

\* OpenFile with O_EXCL: created; or it exists and the load starts again; or
\* the call fails.
Create(p) ==
  /\ pc[p] = "create"
  /\ \/ /\ MayCreate(at[p])
        /\ file' = [file EXCEPT ![at[p]] = "partial"]
        /\ synced' = synced \ {at[p]}
        /\ made' = [made EXCEPT ![at[p]] = @ + 1]
        /\ got' = [got EXCEPT ![p][at[p]] = made[at[p]] + 1]
        /\ pc' = [pc EXCEPT ![p] = "write"]
     \/ /\ ~MayCreate(at[p])
        /\ pc' = [pc EXCEPT ![p] = "look"]
        /\ UNCHANGED <<file, synced, made, got>>
     \/ /\ pc' = [pc EXCEPT ![p] = "failed"]
        /\ UNCHANGED <<file, synced, made, got>>
  /\ UNCHANGED <<value, completed, at, early, starts>>

\* A system call of createPrivateFile fails: the deferred cleanup is next.
CallFails(p) ==
  /\ pc[p] \in Creating \ {"cleanup"}
  /\ pc' = [pc EXCEPT ![p] = "cleanup"]
  /\ UNCHANGED <<diskVars, at, got, early, starts>>

Write(p) ==
  /\ pc[p] = "write"
  /\ file' = [file EXCEPT ![at[p]] = "whole"]
  /\ value' = [value EXCEPT ![at[p]] = got[p][at[p]]]
  /\ pc' = [pc EXCEPT ![p] = "sync"]
  /\ UNCHANGED <<synced, made, completed, at, got, early, starts>>

\* Mutant of Sync: the data is not flushed.
SyncSkipped(p) ==
  /\ pc[p] = "sync"
  /\ pc' = [pc EXCEPT ![p] = "close"]
  /\ UNCHANGED <<diskVars, at, got, early, starts>>

Sync(p) ==
  /\ pc[p] = "sync"
  /\ synced' = synced \cup {at[p]}
  /\ pc' = [pc EXCEPT ![p] = "close"]
  /\ UNCHANGED <<file, made, value, completed, at, got, early, starts>>

\* f.Close succeeds: the new value is this agent's.
CloseFile(p) ==
  /\ pc[p] = "close"
  /\ completed' = [completed EXCEPT ![at[p]] = @ \cup {got[p][at[p]]}]
  /\ Loaded(p, got[p][at[p]])
  /\ UNCHANGED <<file, synced, made, value, early, starts>>

\* The deferred f.Close and os.Remove(path).
Cleanup(p) ==
  /\ pc[p] = "cleanup"
  /\ file' = [file EXCEPT ![at[p]] = "absent"]
  /\ synced' = synced \ {at[p]}
  /\ pc' = [pc EXCEPT ![p] = "failed"]
  /\ UNCHANGED <<made, value, completed, at, got, early, starts>>

-----------------------------------------------------------------------------
(* Failures (external) *)

\* An agent is killed at any point; what it wrote stays.
Kill(p) ==
  /\ pc[p] \notin Over
  /\ pc' = [pc EXCEPT ![p] = "down"]
  /\ UNCHANGED <<diskVars, at, got, early, starts>>

\* The machine loses power: a file that is not synced may be lost or truncated.
PowerLoss ==
  /\ \E p \in Agents : pc[p] \notin Over
  /\ pc' = [p \in Agents |-> "down"]
  /\ file' \in [Files -> {"absent", "partial", "whole"}]
  /\ \A f \in Files :
       /\ f \in synced \/ file[f] = "absent" => file'[f] = file[f]
       /\ file'[f] = "whole" => file[f] = "whole"
  /\ UNCHANGED <<synced, made, value, completed, at, got, early, starts>>

Init ==
  /\ file = [f \in Files |-> "absent"] /\ synced = {}
  /\ made = [f \in Files |-> 0] /\ value = [f \in Files |-> None]
  /\ completed = [f \in Files |-> {}]
  /\ pc = [p \in Agents |-> "down"] /\ at = [p \in Agents |-> "uid"]
  /\ got = [p \in Agents |-> Unloaded] /\ early = {}
  /\ starts = 0

Step(p) == Look(p) \/ Read(p) \/ Create(p) \/ Write(p) \/ Sync(p) \/ CloseFile(p) \/ Cleanup(p)

Next == PowerLoss \/ \E p \in Agents : Start(p) \/ Step(p) \/ CallFails(p) \/ Kill(p)

Spec == Init /\ [][Next]_vars

-----------------------------------------------------------------------------
(* Properties *)

\* An identity that was saved is kept for good: no concurrent start, failed
\* creation, kill or loss of power removes, truncates or replaces it.
IdentityKept ==
  \A f \in Files, v \in 1..MaxStarts :
    v \in completed[f] => file[f] = "whole" /\ value[f] = v

\* Agents that run at the same time have the same uid and key, except one that
\* read a file while its creator could still withdraw it.
RunsAgree ==
  \A p, q \in {r \in Agents : pc[r] = "running" /\ r \notin early} : got[p] = got[q]

\* Malformed material fails closed: an agent that is loading a partial file
\* stays with that file or gives up, it neither loads the file nor takes over
\* its creation; and a partial file that nobody is creating stays as it is, for
\* every later start to refuse, unless power is lost.
FailsClosed ==
  [][\A f \in Files : file[f] = "partial" =>
       /\ \A p \in Agents :
            at[p] = f /\ pc[p] \in Loading =>
              at'[p] = f /\ got'[p] = got[p] /\ pc'[p] \in Loading \cup Over
       /\ Withdrawable(f) \/ file'[f] = "partial" \/ \A p \in Agents : pc'[p] = "down"]_vars
=============================================================================
