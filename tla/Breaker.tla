-------------------------------- MODULE Breaker --------------------------------
(***************************************************************************)
(* The pacing and the circuit breaker of the iBabs API                     *)
(* (src/ibabs/rate_limit.ts), as src/ibabs/client.ts uses it. A limiter is *)
(* one process's limiter for one host: a process has two, and what one     *)
(* learns of a throttle the other and the fleet learn only from the file   *)
(* they share, if they can write and read it. The file is read at most     *)
(* once per ReadTTL and written without waiting for the write. acquire()   *)
(* chains its callers, so one at a time works through reserve(); there is  *)
(* always another one that may want to. Any number of requests may be      *)
(* under way.                                                              *)
(*                                                                         *)
(* Moments are kept as the time left until them, 0 once they have passed,  *)
(* so the clock itself needs no bound.                                     *)
(***************************************************************************)
EXTENDS Integers, FiniteSets

CONSTANTS Limiters,
          BaseCooldown,  (* WOOZI_IBABS_COOLDOWN_MS, in ticks              *)
          MaxCooldown,   (* WOOZI_IBABS_MAX_COOLDOWN_MS                    *)
          Interval,      (* minIntervalMs                                  *)
          ReadTTL,       (* SHARED_READ_TTL_MS                             *)
          MaxThrottles,  (* bound: throttles in a row that are told apart  *)
          MaxCallers     (* bound: a limiter's requests under way          *)

ASSUME BreakerAssumption ==
    /\ BaseCooldown \in Nat \ {0} /\ MaxCooldown \in Nat \ {0}
    /\ Interval \in Nat /\ ReadTTL \in Nat /\ MaxCallers \in Nat
    /\ MaxThrottles \in Nat \ {0}
    /\ BaseCooldown * 2 ^ (MaxThrottles - 1) >= MaxCooldown

VARIABLES
    limiter,     (* per limiter: the fields of IbabsRateLimiter            *)
    callers,     (* per limiter: in reserve(), and requests under way      *)
    sharedFile,  (* blockedUntil in the shared file                        *)
    writes,      (* per limiter: its latest write, while it has not landed *)
    held         (* history, per limiter: the block it knows of, from its  *)
                 (* own throttles or a read of the file, and the requests  *)
                 (* sent into it since the last of these throttles         *)

breakerVars == <<limiter, callers, sharedFile, writes, held>>

Blocks == 0 .. MaxCooldown
NoWrite == -1

BreakerTypeOK ==
    /\ limiter \in [Limiters -> [throttles: 0 .. MaxThrottles, blockedUntil: Blocks,
                                 nextSlotAt: 0 .. Interval, trusted: 0 .. ReadTTL]]
    /\ callers \in [Limiters -> [step: {"none", "blocked", "slot"},
                                 wakeAt: Blocks \cup 0 .. Interval,
                                 sent: 0 .. MaxCallers]]
    /\ sharedFile \in Blocks /\ writes \in [Limiters -> Blocks \cup {NoWrite}]
    /\ held \in [Limiters -> [until: Blocks, sent: 0 .. MaxCallers]]

BreakerInit ==
    /\ limiter = [l \in Limiters |-> [throttles |-> 0, blockedUntil |-> 0,
                                      nextSlotAt |-> 0, trusted |-> 0]]
    /\ callers = [l \in Limiters |-> [step |-> "none", wakeAt |-> 0, sent |-> 0]]
    /\ sharedFile = 0 /\ writes = [l \in Limiters |-> NoWrite]
    /\ held = [l \in Limiters |-> [until |-> 0, sent |-> 0]]

Later(s, t) == IF s > t THEN s ELSE t
Sooner(s, t) == IF s < t THEN s ELSE t
-----------------------------------------------------------------------------
Nearer(t) == Later(t - 1, 0)

ClockTicks ==
    /\ limiter' = [l \in Limiters |-> [limiter[l] EXCEPT
         !.blockedUntil = Nearer(@), !.nextSlotAt = Nearer(@), !.trusted = Nearer(@)]]
    /\ callers' = [l \in Limiters |-> [callers[l] EXCEPT !.wakeAt = Nearer(@)]]
    /\ sharedFile' = Nearer(sharedFile)
    /\ writes' = [l \in Limiters |-> IF writes[l] = NoWrite THEN NoWrite ELSE Nearer(writes[l])]
    /\ held' = [l \in Limiters |-> [until |-> Nearer(held[l].until),
                  sent |-> IF held[l].until <= 1 THEN 0 ELSE held[l].sent]]

(* refreshSharedBlock(): the file can only lengthen the block; an          *)
(* unreadable one changes nothing.                                         *)
SharedBlocks(l) ==
    {limiter[l].blockedUntil} \cup
    IF limiter[l].trusted > 0 THEN {} ELSE {Later(limiter[l].blockedUntil, sharedFile)}

(* reserve(): read the file, sleep until the block is over, then until the *)
(* next slot. Neither is looked at again after its sleep.                  *)
Reserve(l) ==
    /\ callers[l].step = "none"
    /\ callers[l].sent < MaxCallers
    /\ \E block \in SharedBlocks(l) :
          /\ limiter' = [limiter EXCEPT ![l].blockedUntil = block,
                           ![l].trusted = IF @ > 0 THEN @ ELSE ReadTTL]
          /\ callers' = [callers EXCEPT ![l].step = "blocked", ![l].wakeAt = block]
          /\ held' = [held EXCEPT ![l].until = Later(@, block)]
    /\ UNCHANGED <<sharedFile, writes>>

Send(l) ==
    /\ callers' = [callers EXCEPT ![l].step = "none", ![l].wakeAt = 0, ![l].sent = @ + 1]
    /\ limiter' = [limiter EXCEPT ![l].nextSlotAt = Interval]
    /\ held' = [held EXCEPT ![l].sent = IF held[l].until > 0 THEN @ + 1 ELSE @]

BlockIsOver(l) ==
    /\ callers[l].step = "blocked"
    /\ callers[l].wakeAt = 0
    /\ IF limiter[l].nextSlotAt > 0
       THEN /\ callers' = [callers EXCEPT ![l].step = "slot",
                                          ![l].wakeAt = limiter[l].nextSlotAt]
            /\ UNCHANGED <<limiter, held>>
       ELSE Send(l)
    /\ UNCHANGED <<sharedFile, writes>>

SlotComes(l) ==
    /\ callers[l].step = "slot"
    /\ callers[l].wakeAt = 0
    /\ Send(l)
    /\ UNCHANGED <<sharedFile, writes>>
-----------------------------------------------------------------------------
(* cooldownFor(): doubling and capped.                                     *)
Cooldown(consecutive) ==
    IF consecutive = 0 THEN 0
    ELSE Sooner(BaseCooldown * 2 ^ (consecutive - 1), MaxCooldown)

Block(l, cooldown) == Later(limiter[l].blockedUntil, cooldown)

(* recordThrottle(), for any 403 or 429 that is not a hard block.          *)
Throttled(l) ==
    /\ callers[l].sent > 0
    /\ LET throttles == Sooner(limiter[l].throttles + 1, MaxThrottles)
           cooldown == Cooldown(throttles)
       IN  /\ limiter' = [limiter EXCEPT ![l].throttles = throttles,
                                         ![l].blockedUntil = Block(l, cooldown)]
           /\ writes' = [writes EXCEPT ![l] = Block(l, cooldown)]
           /\ held' = [held EXCEPT ![l] = [until |-> Later(@.until, cooldown), sent |-> 0]]
    /\ callers' = [callers EXCEPT ![l].sent = @ - 1]
    /\ UNCHANGED sharedFile

(* recordSuccess(): the count starts anew. Mutant: the block is lifted too.*)
SucceededReopening(l) ==
    [limiter EXCEPT ![l].throttles = 0, ![l].blockedUntil = 0]
Succeeded(l) == [limiter EXCEPT ![l].throttles = 0]

(* Success, or a failure the breaker is not told of.                       *)
Answered(l) ==
    /\ callers[l].sent > 0
    /\ limiter' \in {limiter, Succeeded(l)}
    /\ callers' = [callers EXCEPT ![l].sent = @ - 1]
    /\ UNCHANGED <<sharedFile, writes, held>>

(* writeSharedBlock(): the file is replaced, or it cannot be written.      *)
WriteLands(l) ==
    /\ writes[l] # NoWrite
    /\ writes' = [writes EXCEPT ![l] = NoWrite]
    /\ sharedFile' \in {sharedFile, writes[l]}
    /\ UNCHANGED <<limiter, callers, held>>
-----------------------------------------------------------------------------
BreakerNext ==
    \/ ClockTicks
    \/ \E l \in Limiters :
          \/ Reserve(l) \/ BlockIsOver(l) \/ SlotComes(l)
          \/ Throttled(l) \/ Answered(l) \/ WriteLands(l)

BreakerSpec == BreakerInit /\ [][BreakerNext]_breakerVars
-----------------------------------------------------------------------------
(* A limiter that knows of a block, because it was throttled or has read   *)
(* it from the file, sends until that block is over at most the one        *)
(* request that was past the check already: not when a success comes in    *)
(* late, and not when another process writes a shorter block into the      *)
(* file. A limiter that has not read of a throttle yet is not held by it.  *)
ThrottleHolds == \A l \in Limiters : held[l].sent <= 1
=============================================================================
