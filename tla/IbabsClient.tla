------------------------------ MODULE IbabsClient ------------------------------
(***************************************************************************)
(* One call of the iBabs client (src/ibabs/client.ts): the SOAP request    *)
(* with its two budgets of retries, what the pacing and breaker of         *)
(* rate_limit.ts (module Breaker) are told of it, and what is read from    *)
(* the answer. A document is downloaded in one attempt.                    *)
(*                                                                         *)
(* An answer's body is [node, status, message, rows]: whether it holds the *)
(* operation's result, what iBabs says of it, and its rows, of each        *)
(* whether it has an id (or key) and a name (or value).                    *)
(***************************************************************************)
EXTENDS Integers, Sequences, FiniteSets

CONSTANTS TransportTries,    (* MAX_RETRIES, which counts every attempt    *)
          ThrottleRetries,   (* THROTTLE_MAX_RETRIES, which does not count *)
                             (* the first                                  *)
          RetryAfters        (* seconds an answer may ask to wait          *)

ASSUME ClientAssumption ==
    TransportTries \in Nat \ {0} /\ ThrottleRetries \in Nat /\ RetryAfters \subseteq Nat

VARIABLES
    call,    (* the operation, where it is, its two counters, how long it  *)
             (* rests (in throttleBaseDelayMs) and the rows it returned    *)
    met,     (* history: what each attempt met                             *)
    told     (* history: how often the breaker was told of each            *)

clientVars == <<call, met, told>>

SoapOperations ==
    {"GetMeetingtypes", "GetMeetingsByDateRange", "GetLists",
     "GetListsEntriesByFilterRequest", "GetListEntry", "GetListEntryVotes"}
ClientRows == [id: BOOLEAN, name: BOOLEAN]
Messages == {"none", "no meetings", "no meetingtypes", "no access", "other"}
Bodies == [node: BOOLEAN, status: {"OK", "ERR"}, message: Messages,
           rows: {{}, ClientRows}]
Unsaid == -1
(* What one attempt may meet: a block, a throttle that says how long to    *)
(* wait or not, another status, a dropped connection, a body that cannot   *)
(* be read, an answer.                                                     *)
Encounters ==
    {"blocked", "throttled", "hinted", "refused", "dropped", "unread", "answered"}
NoBody == [node |-> FALSE, status |-> "OK", message |-> "none", rows |-> {}]

ClientTypeOK ==
    /\ call.op \in SoapOperations \cup {"download"}
    /\ call.step \in {"turn", "sent", "resting", "returned", "failed"}
    /\ call.throttles \in 0 .. ThrottleRetries + 1 /\ call.transports \in 0 .. TransportTries
    /\ call.rest \in Nat /\ call.rows \subseteq ClientRows /\ call.body \in Bodies
    /\ met \in Seq(Encounters)
    /\ told \in [throttle: Nat, success: Nat]

ClientInit ==
    /\ call \in [op: SoapOperations \cup {"download"}, step: {"turn"}, throttles: {0},
                 transports: {0}, rest: {0}, rows: {{}}, body: {NoBody}]
    /\ met = <<>> /\ told = [throttle |-> 0, success |-> 0]
-----------------------------------------------------------------------------
(* limiter.acquire(), then the request.                                    *)
Request ==
    /\ call.step = "turn" /\ call' = [call EXCEPT !.step = "sent"]
    /\ UNCHANGED <<met, told>>

(* After a throttle the call rests as the answer asks, or twice as long as *)
(* after the throttle before it; after its last retry it fails.            *)
Delay(n, hint) == IF hint = Unsaid THEN 2 ^ (n - 1) ELSE hint

AfterThrottle(hint) ==
    LET n == call.throttles + 1
    IN  [call EXCEPT !.throttles = n,
                     !.step = IF n > ThrottleRetries THEN "failed" ELSE "resting",
                     !.rest = IF n > ThrottleRetries THEN 0 ELSE Delay(n, hint)]

(* After any other failure, one worth retrying or not. Mutant: throttles   *)
(* take from the same patience.                                            *)
OneBudget(retryable) ==
    LET n == call.transports + 1
        again == n + call.throttles < TransportTries /\ retryable
    IN  [call EXCEPT !.transports = n, !.rest = 0,
                     !.step = IF again THEN "resting" ELSE "failed"]
AfterFailure(retryable) ==
    LET n == call.transports + 1
        again == n < TransportTries /\ retryable
    IN  [call EXCEPT !.transports = n, !.rest = 0,
                     !.step = IF again THEN "resting" ELSE "failed"]

Meets(what) == met' = Append(met, what)
Soap == call.step = "sent" /\ call.op # "download"

(* A 403 whose body says so: this address is blocked. The breaker is not   *)
(* told, and nothing is tried again.                                       *)
SoapBlocked ==
    /\ Soap /\ Meets("blocked")
    /\ call' = [call EXCEPT !.step = "failed"] /\ UNCHANGED told

(* A 429, or a 403 without that body or with one that cannot be read.      *)
SoapThrottled ==
    /\ Soap
    /\ \E hint \in RetryAfters \cup {Unsaid} :
          /\ Meets(IF hint = Unsaid THEN "throttled" ELSE "hinted")
          /\ call' = AfterThrottle(hint)
    /\ told' = [told EXCEPT !.throttle = @ + 1]

(* Any other status, or a request that fails in a way not worth retrying.  *)
SoapRefused ==
    /\ Soap /\ Meets("refused") /\ call' = AfterFailure(FALSE) /\ UNCHANGED told

(* A reset, a timeout, a name that does not resolve.                       *)
SoapDropped ==
    /\ Soap /\ Meets("dropped") /\ call' = AfterFailure(TRUE) /\ UNCHANGED told

(* The breaker is told of the success before the body is read.             *)
SoapUnread ==
    /\ Soap /\ Meets("unread") /\ call' = AfterFailure(TRUE)
    /\ told' = [told EXCEPT !.success = @ + 1]

Rested ==
    /\ call.step = "resting" /\ call' = [call EXCEPT !.step = "turn", !.rest = 0]
    /\ UNCHANGED <<met, told>>

(* The two answers that say a result is empty and call it an error.        *)
Empty(op, body) ==
    \/ op = "GetMeetingtypes" /\ body.message = "no meetingtypes"
    \/ op = "GetMeetingsByDateRange" /\ body.message = "no meetings"

(* assertIbabsResultOk(). A GetLists answer has no status to look at.      *)
Erroneous(op, body) ==
    op # "GetLists" /\ (body.status = "ERR" \/ body.message = "no access")

(* The rows a parser keeps: with an id; a list, and a value of an entry,   *)
(* also with a name; and every vote.                                       *)
Identified(row) == row.id
Named(row) == row.id /\ row.name
Kept(op, row) ==
    CASE op = "GetListEntryVotes" -> TRUE
      [] op \in {"GetLists", "GetListEntry"} -> Named(row)
      [] OTHER -> Identified(row)

Parsed(op, body) ==
    IF body.node /\ Empty(op, body) THEN [ok |-> TRUE, rows |-> {}]
    ELSE IF ~body.node \/ Erroneous(op, body) THEN [ok |-> FALSE, rows |-> {}]
    ELSE [ok |-> TRUE, rows |-> { row \in body.rows : Kept(op, row) }]

SoapAnswered ==
    /\ Soap /\ Meets("answered")
    /\ \E body \in Bodies :
          LET read == Parsed(call.op, body)
          IN  call' = [call EXCEPT !.step = IF read.ok THEN "returned" ELSE "failed",
                                   !.rows = read.rows, !.body = body]
    /\ told' = [told EXCEPT !.success = @ + 1]

(* downloadDocument(): a blocked address counts as throttled here.         *)
Downloads ==
    /\ call.step = "sent" /\ call.op = "download"
    /\ \E what \in Encounters \ {"hinted"} :
          /\ Meets(what)
          /\ call' = [call EXCEPT !.step = IF what = "answered" THEN "returned" ELSE "failed"]
          /\ told' = CASE what \in {"blocked", "throttled"} -> [told EXCEPT !.throttle = @ + 1]
                       [] what \in {"unread", "answered"} -> [told EXCEPT !.success = @ + 1]
                       [] OTHER -> told

ClientNext ==
    \/ Request \/ SoapBlocked \/ SoapThrottled \/ SoapRefused \/ SoapDropped \/ SoapUnread
    \/ Rested \/ SoapAnswered \/ Downloads

ClientSpec == ClientInit /\ [][ClientNext]_clientVars
-----------------------------------------------------------------------------
TimesMet(whats) == Cardinality({ i \in DOMAIN met : met[i] \in whats })
Throttles == {"throttled", "hinted"}
LastMet == met[Len(met)]

(* A throttle and a dropped connection have their own patience: however    *)
(* they alternate, a call gives up on either only after its own budget,    *)
(* and what was dropped in between does not change how long a throttle     *)
(* makes it rest.                                                          *)
PatienceIsSeparate ==
    /\ call.op # "download" /\ call.step = "failed" =>
          /\ LastMet \in Throttles => TimesMet(Throttles) = ThrottleRetries + 1
          /\ LastMet \in {"dropped", "unread"} =>
                TimesMet({"dropped", "unread"}) = TransportTries
    /\ call.step = "resting" /\ LastMet = "throttled" =>
          call.rest = 2 ^ (TimesMet(Throttles) - 1)

(* The breaker hears of every throttle of a SOAP call and of no other      *)
(* failure: a block of the address is not one of them and ends the call at *)
(* once, so nothing waits for what waiting does not clear. A download      *)
(* tells of a block and of a throttle alike.                               *)
BreakerIsToldTheTruth ==
    IF call.op = "download" THEN told.throttle = TimesMet({"blocked", "throttled"})
    ELSE /\ told.throttle = TimesMet(Throttles)
         /\ \A i \in DOMAIN met :
               met[i] = "blocked" => i = Len(met) /\ call.step = "failed"

(* What iBabs calls an error is never taken for an empty window, and the   *)
(* two messages that mean one only count for their own operation. It does  *)
(* not hold of GetLists, whose answer has no status to look at: there an   *)
(* error is read as no lists.                                              *)
ErrorsAreNoAnswers ==
    call.step = "returned" /\ call.op \notin {"download", "GetLists"} =>
        /\ call.body.node
        /\ call.body.status = "ERR" \/ call.body.message = "no access" =>
              \/ call.op = "GetMeetingtypes" /\ call.body.message = "no meetingtypes"
              \/ call.op = "GetMeetingsByDateRange" /\ call.body.message = "no meetings"

ClientIsHonest == PatienceIsSeparate /\ BreakerIsToldTheTruth /\ ErrorsAreNoAnswers
=============================================================================
