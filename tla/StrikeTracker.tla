--------------------------- MODULE StrikeTracker ---------------------------
(***************************************************************************)
(* The hard-proof strike ledger of neurons/proof_v3_failure_strikes.py: the *)
(* per-entry state of HardProofStrikeTracker and the operations on it, as   *)
(* pure operators.  An entry that has no state in the tracker's dictionary  *)
(* is NoStrike.  The state machine that calls them is HardAudit.            *)
(***************************************************************************)
EXTENDS Integers, FiniteSets

CONSTANTS
  FailThreshold,    \* failure_epochs_for_penalty
  CleanThreshold    \* clean_hard_audit_epochs_for_reset

\* configure() rejects thresholds below one.
ASSUME ThresholdAssumption ==
  /\ FailThreshold \in Nat \ {0}
  /\ CleanThreshold \in Nat \ {0}

\* The entry is absent from the tracker's dictionary.
NoStrike == [fail |-> {}, clean |-> {}, pen |-> FALSE]

StrikeType(E) ==
  [fail : SUBSET E, clean : SUBSET E, pen : BOOLEAN]

\* Mutated form: a new failure keeps the clean epochs collected so far.
RecordFailureKeepsClean(s, e, force) ==
  [ fail  |-> s.fail \cup {e},
    clean |-> s.clean,
    pen   |-> s.pen \/ force \/ Cardinality(s.fail \cup {e}) >= FailThreshold ]

(***************************************************************************)
(* record_failure: a forced failure always carries the consequence; a       *)
(* source epoch that is already on record changes nothing; a new one        *)
(* discards the clean epochs and may reach the threshold.                   *)
(***************************************************************************)
RecordFailure(s, e, force) ==
  CASE force -> [fail |-> s.fail \cup {e}, clean |-> {}, pen |-> TRUE]
    [] ~force /\ e \in s.fail -> s
    [] OTHER ->
         [ fail  |-> s.fail \cup {e},
           clean |-> {},
           pen   |-> \/ s.pen
                     \/ Cardinality(s.fail \cup {e}) >= FailThreshold ]

(***************************************************************************)
(* record_clean_pass: only an unpunished entry counts clean epochs, only    *)
(* epochs later than every failure count, and enough of them delete the     *)
(* entry.                                                                   *)
(***************************************************************************)
RecordCleanPass(s, e) ==
  LET counts == /\ ~s.pen
                /\ s.fail # {}
                /\ \A f \in s.fail : e > f
      clean  == s.clean \cup {e}
  IN  CASE ~counts -> s
        [] counts /\ Cardinality(clean) < CleanThreshold ->
             [s EXCEPT !.clean = clean]
        [] OTHER -> NoStrike

(***************************************************************************)
(* to_json writes the entry as it is; from_json refuses a ledger in which a *)
(* failed epoch is also a clean one, or an entry has no failed epoch, and   *)
(* applies the penalty threshold to what it read.                           *)
(***************************************************************************)
Malformed(s) ==
  s # NoStrike /\ (s.fail = {} \/ s.fail \cap s.clean # {})

Reload(s) ==
  [s EXCEPT !.pen = s.pen \/ Cardinality(s.fail) >= FailThreshold]

\* The state the operations maintain: what from_json accepts, and the facts
\* that acceptance rests on.
WellFormed(s) ==
  /\ s.fail = {} => s = NoStrike
  /\ \A c \in s.clean : \A f \in s.fail : c > f
  /\ s.clean # {} => ~s.pen
  /\ ~s.pen => Cardinality(s.fail) < FailThreshold
============================================================================
