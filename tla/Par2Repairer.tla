---------------------------- MODULE Par2Repairer ----------------------------
(***************************************************************************)
(* Par2Repairer::repair_with_callbacks_cancellable (src/lib.rs): load,     *)
(* scan, verify, repair, verify again, purge; run after run on one         *)
(* directory.                                                              *)
(*                                                                         *)
(* The two verifications are the steps of module Verify.  Repair is here   *)
(* what RepairContract promises and module Repair does in detail, with the *)
(* temp files visible to the rest: a killed run leaves them behind and the *)
(* next run's directory scan lists them.                                   *)
(***************************************************************************)
EXTENDS Verify, FiniteSetsExt

CONSTANTS
  TempOf,      \* [Files -> Extras]: <name>.par2tmp
  Volumes,     \* the .par2 files of the recovery set
  PacketsIn,   \* [Volumes -> Nat]: the recovery blocks each holds
  MaxCrashes,  \* bound: runs that are killed
  MaxCancels   \* bound: runs that are cancelled

ASSUME RepairerAssumption ==
  /\ TempOf \in [Files -> Extras]
  /\ \A f, g \in Files : TempOf[f] = TempOf[g] => f = g
  /\ IsFiniteSet(Volumes) /\ PacketsIn \in [Volumes -> Nat]
  /\ MaxCrashes \in Nat /\ MaxCancels \in Nat

VARIABLES
  stage,     \* the statement the run is at; "idle" between two runs
  result,    \* what the last run returned
  doRepair,  \* do_repair
  purge,     \* purge_files
  par2,      \* the recovery files that exist
  loaded,    \* the number of recovery blocks the run has loaded
  todo,      \* the files repair is to rebuild
  replaced,  \* the files it has replaced
  toPurge,   \* the recovery files the purge has still to look at
  crashes,   \* the number of runs killed (history)
  cancels    \* the number of runs cancelled (history)

callVars  == <<observed, pc, outcome, left, resultVars, found, toRename>>
modeVars  == <<doRepair, purge>>
repairVars == <<todo, replaced>>
countVars == <<failures, unread, crashes, cancels>>
runnerVars == <<stage, result, modeVars, par2, loaded, repairVars, toPurge, crashes, cancels>>
allVars == <<vars, runnerVars>>

\* A fresh call of verify_files_with_messages, or the values the call left forgotten.
ResetCall ==
  /\ observed' = FALSE
  /\ pc' = "byName" /\ outcome' = "running"
  /\ left' = Files
  /\ path' = [f \in Files |-> "none"]
  /\ missing' = {} /\ damaged' = {} /\ mapped' = {}
  /\ badBlocks' = [f \in Files |-> {}]
  /\ found' = [p \in Names |-> "none"]
  /\ toRename' = {}

\* The run ends; what it kept in memory is gone.
End(o) ==
  /\ stage' = "idle" /\ result' = o
  /\ cancel' = "no" /\ listing' = {} /\ loaded' = 0
  /\ todo' = {} /\ toPurge' = {}
  /\ ResetCall
  /\ UNCHANGED <<order, modeVars, replaced, crashes, cancels>>

RunnerInit ==
  /\ Init
  /\ stage = "idle" /\ result = "none"
  /\ doRepair = FALSE /\ purge = FALSE
  /\ par2 = Volumes
  /\ loaded = 0 /\ todo = {} /\ replaced = {} /\ toPurge = {}
  /\ crashes = 0 /\ cancels = 0

Packets(S) == MapThenSumSet(LAMBDA v : PacketsIn[v], S)

IoFails == failures < MaxFailures /\ failures' = failures + 1

-----------------------------------------------------------------------------
(* Load and scan.                                                          *)

\* Par2Repairer::new wants the recovery file it is given to exist.
Begin(repairing) ==
  /\ stage = "idle" /\ par2 # {}
  /\ stage' = "load" /\ result' = "running"
  /\ doRepair' = repairing /\ purge' \in BOOLEAN
  /\ replaced' = {}
  /\ UNCHANGED <<vars, par2, loaded, todo, toPurge, crashes, cancels>>

\* The caller's flag is read where the run stands.
CancelSeen ==
  /\ CancelRaised
  /\ stage \in {"load", "scan", "repaired", "purge"}
  /\ End("cancelled")
  /\ UNCHANGED <<disk, par2, failures, unread>>

\* A volume that cannot be read is passed over.
Load ==
  /\ stage = "load" /\ ~CancelRaised
  /\ \E lost \in SUBSET par2 :
       /\ failures' = failures + Cardinality(lost)
       /\ failures' <= MaxFailures
       /\ loaded' = Packets(par2 \ lost)
  /\ order' \in Orders
  /\ stage' = "scan"
  /\ UNCHANGED <<disk, listing, cancel, callVars, unread, result, modeVars, par2, repairVars,
                 toPurge, crashes, cancels>>

\* The recovery file the run was given cannot be read.
LoadFails ==
  /\ stage = "load" /\ ~CancelRaised
  /\ IoFails
  /\ End("failed")
  /\ UNCHANGED <<disk, par2, unread>>

\* Mutant: the scan lists only the protected names.
ScanOwnNames ==
  /\ stage = "scan" /\ ~CancelRaised
  /\ listing' = {f \in Files : Exists(f)}
  /\ ResetCall
  /\ stage' = "verify"
  /\ UNCHANGED <<disk, order, cancel, failures, unread, result, modeVars, par2, loaded,
                 repairVars, toPurge, crashes, cancels>>

\* scan_directory, and the call of the first verification.
Scan ==
  /\ stage = "scan" /\ ~CancelRaised
  /\ listing' = {p \in Names : Exists(p)}
  /\ ResetCall
  /\ stage' = "verify"
  /\ UNCHANGED <<disk, order, cancel, failures, unread, result, modeVars, par2, loaded,
                 repairVars, toPurge, crashes, cancels>>

-----------------------------------------------------------------------------
(* The verifications.                                                      *)

VerifyStep ==
  /\ stage \in {"verify", "reverify"}
  /\ Step
  /\ UNCHANGED runnerVars

Verified(o) == stage \in {"verify", "reverify"} /\ pc = "done" /\ outcome = o

VerifyCancelled ==
  /\ Verified("cancelled")
  /\ End("cancelled")
  /\ UNCHANGED <<disk, par2, failures, unread>>

\* Mutant: missing files do not count.
NoneDamaged ==
  /\ Verified("ok") /\ damaged = {}
  /\ stage' = "purge"
  /\ UNCHANGED <<vars, result, modeVars, par2, loaded, repairVars, toPurge, crashes, cancels>>

\* Every protected file is verified: repair is done, or was not needed.
AllGood ==
  /\ Verified("ok") /\ AllVerified
  /\ stage' = "purge"
  /\ UNCHANGED <<vars, result, modeVars, par2, loaded, repairVars, toPurge, crashes, cancels>>

\* The blocks repair has to rebuild on the verdict of the first verification.
LostOf(f) ==
  CASE f \in missing -> Blocks(f)
    [] f \in mapped  -> badBlocks[f]
    [] f \in damaged -> Blocks(f)
    [] OTHER         -> {}
LostBlocks == UNION {{f} \X LostOf(f) : f \in Files}

Enough == Cardinality(LostBlocks) <= loaded

\* Damage, and repair was not asked for, has been done in vain, is cancelled, or finds too
\* few recovery blocks before it has created a temp.
VerifyBad ==
  /\ Verified("ok") /\ ~AllVerified
  /\ \/ stage = "reverify" /\ End("failed")
     \/ stage = "verify" /\ ~doRepair /\ End("failed")
     \/ stage = "verify" /\ doRepair /\ CancelRaised /\ End("cancelled")
     \/ stage = "verify" /\ doRepair /\ ~CancelRaised /\ ~Enough /\ End("failed")
  /\ UNCHANGED <<disk, par2, failures, unread>>

-----------------------------------------------------------------------------
(* Repair, by its contract.                                                *)

\* Every block that is not lost is, still, where the verdict says.
SourcesThere ==
  \A f \in Files : \A b \in Blocks(f) \ LostOf(f) :
    Exists(path[f]) /\ b \notin BadBlocks(SeenAs(f, disk[path[f]]))

Scratch(f) == [of |-> Bytes[f], len |-> "exact", bad |-> Cells(f)]

\* Temps of the files in S hold what T gives them.
WithTemps(S, T(_)) ==
  [p \in Names |-> IF \E f \in S : TempOf[f] = p THEN T(CHOOSE f \in S : TempOf[f] = p)
                                                  ELSE disk[p]]
Gone(f) == Nothing

Untouched == <<inputVars, cancel, callVars, failures, unread, result, modeVars, par2, loaded,
               replaced, toPurge, crashes, cancels>>

\* Mutant: the targets themselves are created anew.
BeginRepairInPlace ==
  /\ stage = "verify" /\ Verified("ok") /\ ~AllVerified /\ doRepair /\ ~CancelRaised
  /\ Enough
  /\ todo' = IF LostBlocks = {} THEN {} ELSE missing \cup damaged
  /\ disk' = [p \in Names |-> IF p \in todo' THEN Scratch(p) ELSE disk[p]]
  /\ stage' = IF todo' = {} THEN "repaired" ELSE "repair"
  /\ UNCHANGED Untouched

\* Mutant: every protected file is opened for writing.
BeginRepairAll ==
  /\ stage = "verify" /\ Verified("ok") /\ ~AllVerified /\ doRepair /\ ~CancelRaised
  /\ Enough
  /\ todo' = IF LostBlocks = {} THEN {} ELSE missing \cup damaged
  /\ disk' = [p \in Names |-> IF p \in Files THEN Scratch(p) ELSE disk[p]]
  /\ stage' = IF todo' = {} THEN "repaired" ELSE "repair"
  /\ UNCHANGED Untouched

\* The temps of all targets are created, or truncated if a killed run left them.
BeginRepair ==
  /\ stage = "verify" /\ Verified("ok") /\ ~AllVerified /\ doRepair /\ ~CancelRaised
  /\ Enough
  /\ todo' = IF LostBlocks = {} THEN {} ELSE missing \cup damaged
  /\ disk' = WithTemps(todo', Scratch)
  /\ stage' = IF todo' = {} THEN "repaired" ELSE "repair"
  /\ UNCHANGED Untouched

\* Mutant: the temps are renamed without a gate.
RebuildUnverified ==
  /\ stage = "repair"
  /\ stage' = "commit"
  /\ UNCHANGED <<vars, result, modeVars, par2, loaded, repairVars, toPurge, crashes, cancels>>

\* Every temp is written and has passed the gate.
Rebuild ==
  /\ stage = "repair" /\ SourcesThere
  /\ disk' = WithTemps(todo, WholeOf)
  /\ stage' = "commit"
  /\ UNCHANGED <<inputVars, cancel, callVars, failures, unread, result, modeVars, par2, loaded,
                 repairVars, toPurge, crashes, cancels>>

RepairCancelled ==
  /\ stage = "repair" /\ CancelRaised
  /\ disk' = WithTemps(todo, Gone)
  /\ End("cancelled")
  /\ UNCHANGED <<par2, failures, unread>>

\* Nothing to rebuild from, or an I/O failure; a failed set_len leaves its temp.
RepairFailed ==
  /\ stage \in {"repair", "commit"}
  /\ \/ /\ stage = "repair" /\ ~SourcesThere
        /\ disk' = WithTemps(todo, Gone)
        /\ UNCHANGED failures
     \/ /\ IoFails
        /\ disk' = WithTemps(todo \ replaced, Gone)
     \/ /\ stage = "repair" /\ IoFails
        /\ \E f \in todo : disk' = WithTemps(todo \ {f}, Gone)
  /\ End("failed")
  /\ UNCHANGED <<par2, unread>>

Replace(f) ==
  /\ stage = "commit" /\ f \in todo \ replaced
  /\ disk' = Moved(TempOf[f], f)
  /\ replaced' = replaced \cup {f}
  /\ UNCHANGED <<inputVars, cancel, callVars, failures, unread, stage, result, modeVars, par2,
                 loaded, todo, toPurge, crashes, cancels>>

RepairDone ==
  /\ stage = "commit" /\ replaced = todo
  /\ stage' = "repaired"
  /\ UNCHANGED <<vars, result, modeVars, par2, loaded, repairVars, toPurge, crashes, cancels>>

\* The second verification looks in the listing of before the repair.
Reverify ==
  /\ stage = "repaired" /\ ~CancelRaised
  /\ ResetCall
  /\ stage' = "reverify"
  /\ UNCHANGED <<disk, inputVars, cancel, failures, unread, result, modeVars, par2, loaded,
                 repairVars, toPurge, crashes, cancels>>

-----------------------------------------------------------------------------
(* Purge; the flag is not read any more.                                   *)

NoPurge ==
  /\ stage = "purge" /\ ~CancelRaised /\ ~purge
  /\ End("ok")
  /\ UNCHANGED <<disk, par2, failures, unread>>

BeginPurge ==
  /\ stage = "purge" /\ ~CancelRaised /\ purge
  /\ toPurge' = par2
  /\ stage' = "purging"
  /\ UNCHANGED <<vars, result, modeVars, par2, loaded, repairVars, crashes, cancels>>

\* The recovery file the run was given, or the directory, cannot be read.
PurgeFailed ==
  /\ stage = "purging"
  /\ IoFails
  /\ End("failed")
  /\ UNCHANGED <<disk, par2, unread>>

\* Mutant: a file that was removed is still to be removed.
PurgeOneAgain(v) ==
  /\ stage = "purging" /\ v \in toPurge
  /\ par2' = par2 \ {v}
  /\ UNCHANGED <<disk, inputVars, cancel, callVars, failures, unread, stage, result, modeVars,
                 loaded, repairVars, toPurge, crashes, cancels>>

\* One file of the set is removed, or the removal fails and is only reported.
PurgeOne(v) ==
  /\ stage = "purging" /\ v \in toPurge
  /\ toPurge' = toPurge \ {v}
  /\ \/ par2' = par2 \ {v} /\ UNCHANGED failures
     \/ IoFails /\ UNCHANGED par2
  /\ UNCHANGED <<disk, inputVars, cancel, callVars, unread, stage, result, modeVars, loaded,
                 repairVars, crashes, cancels>>

Purged ==
  /\ stage = "purging" /\ toPurge = {}
  /\ End("ok")
  /\ UNCHANGED <<disk, par2, failures, unread>>

-----------------------------------------------------------------------------
(* The environment.                                                        *)

RaiseFlag ==
  /\ stage # "idle" /\ ~CancelRaised
  /\ cancels < MaxCancels
  /\ cancels' = cancels + 1
  /\ cancel' = stage
  /\ UNCHANGED <<disk, inputVars, callVars, failures, unread, stage, result, modeVars, par2,
                 loaded, repairVars, toPurge, crashes>>

\* The process is killed; the disk stays as it is.
Killed ==
  /\ stage # "idle"
  /\ crashes < MaxCrashes
  /\ crashes' = crashes + 1
  /\ stage' = "idle" /\ result' = "crashed"
  /\ cancel' = "no" /\ listing' = {} /\ loaded' = 0
  /\ todo' = {} /\ toPurge' = {}
  /\ ResetCall
  /\ UNCHANGED <<disk, order, failures, unread, modeVars, par2, replaced, cancels>>

RunStep ==
  \/ CancelSeen \/ Load \/ LoadFails \/ Scan
  \/ VerifyStep \/ VerifyCancelled \/ AllGood \/ VerifyBad
  \/ BeginRepair \/ Rebuild \/ RepairCancelled \/ RepairFailed
  \/ \E f \in Files : Replace(f)
  \/ RepairDone \/ Reverify
  \/ NoPurge \/ BeginPurge \/ PurgeFailed \/ Purged
  \/ \E v \in Volumes : PurgeOne(v)

\* The recovery files are gone: no run can begin.
Retired == stage = "idle" /\ par2 = {} /\ UNCHANGED allVars

RunnerNext ==
  RunStep \/ (\E repairing \in BOOLEAN : Begin(repairing)) \/ RaiseFlag \/ Killed \/ Retired

RunnerSpec == RunnerInit /\ [][RunnerNext]_allVars

\* A run that has begun goes on, and the user tries again with do_repair for as long as
\* there is a recovery file to give.
RunnerFairSpec == RunnerSpec /\ WF_allVars(RunStep) /\ SF_allVars(Begin(TRUE))

-----------------------------------------------------------------------------
(* Properties.                                                             *)

\* Every variable has its type.
RunnerTypeOK ==
  /\ disk \in [Names -> Holdings] /\ par2 \subseteq Volumes
  /\ stage \in {"idle", "load", "scan", "verify", "repair", "commit", "repaired", "reverify",
                "purge", "purging"}
  /\ result \in {"none", "running", "ok", "failed", "cancelled", "crashed"}
  /\ loaded \in 0 .. Packets(Volumes)
  /\ todo \subseteq Files /\ replaced \subseteq Files /\ toPurge \subseteq par2

\* The blocks of f that only recovery can bring back: none if f is whole under its own
\* name or, that name being free, under another; the bad ones of a damaged file that has
\* slice checksums; else all.  (A damaged file hides a whole copy elsewhere.)
BlocksShort(f) ==
  LET k == SeenAs(f, disk[f])
  IN  CASE \E p \in Names : Whole(p, f) /\ (p = f \/ ~Exists(f)) -> {}
        [] HasBlockMap(f, k) -> BadBlocks(k)
        [] OTHER             -> Blocks(f)
ShortOf == Cardinality(UNION {{f} \X BlocksShort(f) : f \in Files})

AllWhole == \A f \in Files : \E p \in Names : Whole(p, f)

Repairable == ShortOf <= Packets(par2) \/ AllWhole

\* A directory that can be repaired can be repaired after any step of any run: a killed,
\* failed or cancelled run, and what it leaves behind, takes nothing away.
StaysRepairable == [][Repairable => Repairable']_allVars

\* A file that is whole under its own name is never touched again.  (Unless another file
\* has the same bytes: if the first cannot be read it may be taken for the other.)
IntactStaysIntact ==
  [][\A f \in Files : Whole(f, f) => disk'[f] = disk[f]]_allVars

\* Recovery files are deleted only while every file is whole, by whatever run, after
\* whatever failures: nothing needs them any more at that instant.
PurgedIsWhole == [][par2' # par2 => AllWhole]_allVars

\* A run that returns Ok leaves every file whole, and under its own name unless I/O failed.
OkIsWhole ==
  result = "ok" => AllWhole /\ (failures = 0 => \A f \in Files : Whole(f, f))

\* A run that returns Cancelled or an error, or is killed, before the second verification
\* has replaced a file only with its protected bytes.
ReplacedIsWhole == \A f \in replaced : Whole(f, f)

\* A run ends, cancelled or not, whatever fails.
RunEnds == stage # "idle" ~> stage = "idle"

\* Trying again converges: from a directory that can be repaired, after any finite number
\* of killed and cancelled runs and failed operations every file is whole for good.  One
\* run does not suffice: a renamed file, say, is of use to repair only in the next.
RetryingConverges == Repairable => <>[]AllWhole
=============================================================================
