------------------------------ MODULE MCServices ------------------------------
(***************************************************************************)
(* The four services beside the protection itself: the structured log, the *)
(* alert manager, the rate limiter of the API and the audit trail.  They   *)
(* share no state, so that a behaviour of the four together is one of      *)
(* each, and each is checked on its own: subject says which of them moves. *)
(***************************************************************************)
EXTENDS LogFiles, AlertPolicy, RateLimits, TLC

CONSTANTS
    Reader, Stream, Queue, MaxEntries, MaxFaults, MaxCrashes, MaxClears,
    Dispatcher, MaxAlertTime, MaxDispatches, MaxEvents,
    Pager, PageSize, Wanted, MaxRecords, MaxMishaps,
    flood, scan, slack, discord

\* The bounds and the capacities are natural numbers.
ASSUME ServicesAssumption ==
    /\ Queue \in Nat /\ MaxEntries \in Nat /\ MaxFaults \in Nat /\ MaxCrashes \in Nat
    /\ MaxRecords \in Nat /\ MaxMishaps \in Nat

VARIABLES
    subject,
    active, archives, stable, task, entry, closed, at, held, adrift, got, joined, open, queue,
    faults, crashes, clears, acked, excused, leftovers, expected, caught, seen, lost,
    providers, health, deliveries, saved, cooldowns, alertNow, pc, cancelled, copied, todo,
    rule, jobs, attempt, tries, success, dispatches, events, sends, rounds, silenced, checked,
    now, buckets, lastSweep, answer, asked,
    trail, synced, stage, record, cursor, matched, page, pages, mishaps, kept, misled

logVars ==
    <<active, archives, stable, task, entry, closed, at, held, adrift, got, joined, open, queue,
      faults, crashes, clears, acked, excused, leftovers, expected, caught, seen, lost>>
alertVars ==
    <<providers, health, deliveries, saved, cooldowns, alertNow, pc, cancelled, copied, todo,
      rule, jobs, attempt, tries, success, dispatches, events, sends, rounds, silenced, checked>>
limiterVars == <<now, buckets, lastSweep, answer, asked>>
auditVars ==
    <<trail, synced, stage, record, cursor, matched, page, pages, mishaps, kept, misled>>
vars == <<subject, logVars, alertVars, limiterVars, auditVars>>

Log     == INSTANCE LogManager
Alerts  == INSTANCE AlertDispatch WITH now <- alertNow, MaxTime <- MaxAlertTime
Limiter == INSTANCE RateLimiter
Audit   == INSTANCE AuditTrail

Init ==
    /\ subject \in {"log", "alerts", "limiter", "audit"}
    /\ Log!Init /\ Alerts!Init /\ Limiter!Init /\ Audit!Init

Next ==
    \/ /\ subject = "log" /\ Log!Next
       /\ UNCHANGED <<subject, alertVars, limiterVars, auditVars>>
    \/ /\ subject = "alerts" /\ Alerts!Next
       /\ UNCHANGED <<subject, logVars, limiterVars, auditVars>>
    \/ /\ subject = "limiter" /\ Limiter!Next
       /\ UNCHANGED <<subject, logVars, alertVars, auditVars>>
    \/ /\ subject = "audit" /\ Audit!Next
       /\ UNCHANGED <<subject, logVars, alertVars, limiterVars>>

Spec == Init /\ [][Next]_vars

-----------------------------------------------------------------------------
(* Two rules with a provider each: slack can be tried again, discord's     *)
(* first wait is already beyond the integers.                              *)

MCRules        == <<flood, scan>>
MCOn           == (flood :> "attack") @@ (scan :> "scan")
MCTargets      == (flood :> <<slack>>) @@ (scan :> <<discord>>)
MCCooldown     == (flood :> 1) @@ (scan :> 0)
MCKnown        == <<slack, discord>>
MCAttempts     == (slack :> 2) @@ (discord :> 2)
MCFirstBackoff == (slack :> 100) @@ (discord :> 130)

-----------------------------------------------------------------------------
(* The properties of the four, which their modules state.                 *)

\* What each variable may be.
TypeOK == Log!TypeOK /\ Alerts!TypeOK /\ Limiter!TypeOK /\ Audit!TypeOK

\* An entry that was logged without an error is kept (LogManager).
AcknowledgedIsKept == Log!AcknowledgedIsKept

\* A query shows what was in the file, once and in order (LogManager).
QueriesTellTheLog == Log!QueriesTellTheLog

\* A stream shows what was acknowledged (LogManager).
StreamsFollowTheLog == Log!StreamsFollowTheLog

\* Archives do not pile up (LogManager).
ArchivesAreBounded == Log!ArchivesAreBounded

\* A rule fires once in its cooldown, and is silent only then (AlertDispatch).
CooldownHolds == Alerts!CooldownHolds

\* The history says what the providers answered (AlertDispatch).
HistoryIsTrue == Alerts!HistoryIsTrue

\* A provider's health tells what the history does (AlertDispatch).
HealthAgreesWithHistory == Alerts!HealthAgreesWithHistory


\* Clients are answered as the abstract buckets would (RateLimiter).
ImplementsTokenBuckets == Limiter!ImplementsTokenBuckets

\* Buckets do not pile up (RateLimiter).
IdleBucketsGo == Limiter!IdleBucketsGo

\* The trail of actions is whole and its pages join (AuditTrail).
AuditIsATrail == Audit!AuditIsATrail
=============================================================================
