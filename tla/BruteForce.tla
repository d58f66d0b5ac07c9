----------------------------- MODULE BruteForce -----------------------------
(***************************************************************************)
(* The failure counter per IP (auth/bruteforce/tracker.go) and the         *)
(* middleware that asks it before and after an authentication              *)
(* (auth/auth.go:181-205).  Each operation of the tracker holds its mutex; *)
(* the authentication between two of them does not.                        *)
(*                                                                         *)
(* blockedUntil is kept as the ticks left: NotSet is the zero time, 0 a    *)
(* time that has passed.                                                   *)
(***************************************************************************)
EXTENDS Naturals

CONSTANTS
    IPs,
    Handlers,     \* goroutines that serve a request
    MaxFailures,  \* auth.brute_force.max_failures
    Duration,     \* auth.brute_force.block_duration, in ticks
    NotSet

ASSUME TrackerAssumption ==
    /\ MaxFailures \in Nat \ {0}
    /\ Duration \in Nat \ {0}
    /\ NotSet \notin Nat

VARIABLES
    entries,  \* Tracker.entries
    handler,  \* the request each handler serves
    failed    \* history: failed attempts since the last success or block,
              \* counted up to MaxFailures

trackerVars == <<entries, handler, failed>>

NoEntry == [present |-> FALSE, failures |-> 0, left |-> NotSet]
Entry == [present : BOOLEAN, failures : Nat, left : (0 .. Duration) \union {NotSet}]
Free == [pc |-> "idle"]
HandlerState == [pc : {"idle"}] \union [pc : {"auth", "check"}, ip : IPs]

TrackerInit ==
    /\ entries = [ip \in IPs |-> NoEntry]
    /\ handler = [h \in Handlers |-> Free]
    /\ failed = [ip \in IPs |-> 0]

Blocked(ip) == entries[ip].left \in 1 .. Duration
Expired(ip) == entries[ip].left = 0

(* A mutant: a block is forgotten by the query that reports it.            *)
ForgetAlways(ip) == entries' = [entries EXCEPT ![ip] = NoEntry]

(* tracker.go:38-52  the query deletes the entry it does not find blocked, *)
(* a counter that has not reached the threshold included.                  *)
IsBlocked(ip) ==
    entries' = IF Blocked(ip) THEN entries ELSE [entries EXCEPT ![ip] = NoEntry]

(* auth.go:184-190                                                         *)
Arrive(h, ip) ==
    /\ handler[h].pc = "idle"
    /\ IsBlocked(ip)
    /\ handler' = IF Blocked(ip) THEN handler
                  ELSE [handler EXCEPT ![h] = [pc |-> "auth", ip |-> ip]]
    /\ UNCHANGED failed

(* tracker.go:59-72  the counter with this failure, from zero if a block   *)
(* has just expired.                                                       *)
Counted(ip) == (IF Expired(ip) THEN 0 ELSE entries[ip].failures) + 1

(* A mutant: a failure during a block adds another one to it.              *)
FailedEntryAdds(ip) ==
    [present |-> TRUE, failures |-> Counted(ip),
     left |-> IF Counted(ip) < MaxFailures THEN NotSet
              ELSE IF Blocked(ip) THEN entries[ip].left + Duration ELSE Duration]

FailedEntry(ip) ==
    [present |-> TRUE, failures |-> Counted(ip),
     left |-> IF Counted(ip) >= MaxFailures THEN Duration
              ELSE IF Expired(ip) THEN NotSet ELSE entries[ip].left]

(* auth.go:195-196  the response was 401.                                  *)
RecordFailure(h) ==
    /\ handler[h].pc = "auth"
    /\ LET ip == handler[h].ip IN
       /\ entries' = [entries EXCEPT ![ip] = FailedEntry(ip)]
       /\ failed' = [failed EXCEPT ![ip] =
                       IF FailedEntry(ip).left = Duration THEN 0
                       ELSE IF @ < MaxFailures THEN @ + 1 ELSE @]
       /\ handler' = [handler EXCEPT ![h] = [pc |-> "check", ip |-> ip]]

(* A mutant: the middleware does not ask after a failure.                  *)
CheckSkipped(h) ==
    /\ handler[h].pc = "check"
    /\ handler' = [handler EXCEPT ![h] = Free]
    /\ UNCHANGED <<entries, failed>>

(* auth.go:197-200  asked for the sake of the log message.                 *)
CheckAfterFailure(h) ==
    /\ handler[h].pc = "check"
    /\ IsBlocked(handler[h].ip)
    /\ handler' = [handler EXCEPT ![h] = Free]
    /\ UNCHANGED failed

(* auth.go:201-202 and tracker.go:76-80                                    *)
RecordSuccess(h) ==
    /\ handler[h].pc = "auth"
    /\ entries' = [entries EXCEPT ![handler[h].ip] = NoEntry]
    /\ failed' = [failed EXCEPT ![handler[h].ip] = 0]
    /\ handler' = [handler EXCEPT ![h] = Free]

(* auth.go:201  an error other than 401 counts for nothing.                *)
OtherError(h) ==
    /\ handler[h].pc = "auth"
    /\ handler' = [handler EXCEPT ![h] = Free]
    /\ UNCHANGED <<entries, failed>>

(* A mutant: the cleanup looks for the zero time.                          *)
CleanupUnset ==
    /\ entries' = [ip \in IPs |-> IF entries[ip].left = NotSet THEN NoEntry ELSE entries[ip]]
    /\ UNCHANGED <<handler, failed>>

(* tracker.go:112-125                                                      *)
Cleanup ==
    /\ entries' = [ip \in IPs |-> IF Expired(ip) THEN NoEntry ELSE entries[ip]]
    /\ UNCHANGED <<handler, failed>>

(* Time passes for every block.                                            *)
Tick ==
    /\ entries' = [ip \in IPs |-> IF Blocked(ip) THEN [entries[ip] EXCEPT !.left = @ - 1]
                                  ELSE entries[ip]]
    /\ UNCHANGED <<handler, failed>>

Finish(h) == RecordFailure(h) \/ CheckAfterFailure(h) \/ RecordSuccess(h) \/ OtherError(h)

TrackerNext ==
    \/ \E h \in Handlers, ip \in IPs : Arrive(h, ip)
    \/ \E h \in Handlers : Finish(h)
    \/ Cleanup
    \/ Tick

TrackerSpec == TrackerInit /\ [][TrackerNext]_trackerVars

(* Time passes, the cleanup goroutine runs, an authentication ends.        *)
FairTrackerSpec ==
    /\ TrackerSpec
    /\ WF_trackerVars(Tick)
    /\ WF_trackerVars(Cleanup)
    /\ \A h \in Handlers : WF_trackerVars(Finish(h))

-----------------------------------------------------------------------------
(* Properties                                                              *)

(* Entries and handlers have their shapes.                                 *)
TrackerTypeOK ==
    /\ entries \in [IPs -> Entry]
    /\ handler \in [Handlers -> HandlerState]
    /\ failed \in [IPs -> 0 .. MaxFailures]

(* An absent entry carries no block, and one that stays behind carries a   *)
(* block, so that the cleanup, which only looks at those, bounds the map   *)
(* (tracker.go:112-125): a bare counter lives as long as a request does.   *)
BareCountersAreInUse ==
    \A ip \in IPs :
        /\ ~ entries[ip].present => entries[ip] = NoEntry
        /\ entries[ip].present /\ entries[ip].left = NotSet =>
              \E h \in Handlers : handler[h].pc = "check" /\ handler[h].ip = ip

(* A block stands until its time has passed, whoever asks, fails or cleans *)
(* up meanwhile; only a success that was under way lifts it                *)
(* (tracker.go:37-73).                                                     *)
BlockStands ==
    [][\A ip \in IPs :
         Blocked(ip) => \/ Blocked(ip)'
                        \/ Tick
                        \/ \E h \in Handlers : RecordSuccess(h) /\ handler[h].ip = ip]_trackerVars

(* A block comes to an end and no entry is kept for ever, whoever asks     *)
(* meanwhile (tracker.go:2, 111).                                          *)
EntryGoes == \A ip \in IPs : entries[ip].present ~> ~ entries[ip].present

-----------------------------------------------------------------------------
(* What the documentation says and the code does not do                    *)

(* tracker.go:2: after MaxFailures failed attempts the IP is blocked.      *)
FailuresBlock == \A ip \in IPs : failed[ip] < MaxFailures
=============================================================================
