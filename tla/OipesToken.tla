----------------------------- MODULE OipesToken -----------------------------
(***************************************************************************)
(* backend/sub_kernel/oipes_client.c: the life of the access token.  It is *)
(* loaded or requested at the start, saved, renewed from a loop that looks *)
(* at the clock now and then, and lost with the process, which crashes and *)
(* is started again at any time.                                           *)
(*                                                                         *)
(* Times are relative: seconds from now.  The client counts LIFETIME from  *)
(* when it reads an answer; the service counts what it grants from when it *)
(* issues the token, some time before, and the client does not look at the *)
(* expires_in of the answer.  The text of a token is left out, the number  *)
(* of words in the file is not: fscanf counts them.                        *)
(***************************************************************************)
EXTENDS Integers, Sequences

CONSTANTS
  LIFETIME,     \* seconds the client takes a token to be good for (3600)
  GRANT,        \* seconds the service honours it
  MARGIN,       \* seconds before its end it is renewed (60)
  POLL,         \* seconds main sleeps (30)
  MaxLatency    \* seconds that a request takes when all is well

ASSUME TimingAssumption ==
  /\ LIFETIME \in Nat /\ GRANT \in Nat /\ MARGIN \in Nat
  /\ POLL \in Nat \ {0} /\ MaxLatency \in Nat
  /\ POLL + MaxLatency < MARGIN
  /\ MARGIN + MaxLatency <= LIFETIME
  /\ POLL + 2 * MaxLatency + LIFETIME < MARGIN + GRANT

VARIABLES
  pc,         \* of main: "load", "authenticate", "register", "sleep", "renew",
              \* or "dead": there is no process
  auth_token, \* access and refresh: are the strings there?  is_valid
  left,       \* expires_at - time(NULL)
  nap,        \* what is left of sleep
  store,      \* the words in the file, of which there may be none
  store_left, \* the time in it
  response,   \* does the response buffer of authenticate hold the last token?
  wait,       \* history: how long the request under way has taken
  served,     \* history: all requests of this process were answered in time
  issued,     \* has the service issued a token for the request under way?
  fresh,      \* how long it honours that one
  granted,    \* how long it honours the one that the client has
  reused      \* history: the token's expiry was set from an old response

file == <<store, store_left>>
service == <<issued, fresh, granted>>
ghosts == <<wait, served, reused>>
vars == <<pc, auth_token, left, nap, file, response, service, ghosts>>

NoToken == [access |-> FALSE, refresh |-> FALSE, is_valid |-> FALSE]
Past == -1            \* any time before now
Times == Past .. LIFETIME
Grants == Past .. GRANT
Requesting == pc \in {"authenticate", "register", "renew"}

TypeOK ==
  /\ pc \in {"load", "authenticate", "register", "sleep", "renew", "dead"}
  /\ auth_token \in [access : BOOLEAN, refresh : BOOLEAN, is_valid : BOOLEAN]
  /\ left \in Times /\ store_left \in Times
  /\ fresh \in Grants /\ granted \in Grants /\ issued \in BOOLEAN
  /\ nap \in 0 .. POLL
  /\ store \in Seq({"access", "refresh", "expires"}) /\ Len(store) <= 3
  /\ response \in BOOLEAN
  /\ wait \in 0 .. MaxLatency
  /\ served \in BOOLEAN /\ reused \in BOOLEAN

Init ==
  /\ pc = "load"
  /\ auth_token = NoToken
  /\ left = Past /\ store_left = Past
  /\ issued = FALSE /\ fresh = Past /\ granted = Past
  /\ nap = 0
  /\ store = << >>
  /\ response = FALSE
  /\ wait = 0 /\ served = TRUE /\ reused = FALSE

----------------------------------------------------------------------------
(* load_token and save_token *)

\* What save_token writes: a blank string leaves no word.
Saved(t) ==
  (IF t.access THEN <<"access">> ELSE << >>)
    \o (IF t.refresh THEN <<"refresh">> ELSE << >>) \o <<"expires">>

\* save_token: the old file stays when it cannot be opened.
Save(t) ==
  \/ store' = Saved(t) /\ store_left' = LIFETIME
  \/ UNCHANGED file

\* fscanf has its three conversions, the last of them a number.
Parses(words) == Len(words) = 3

\* main up to authenticate; a file that does not parse is ignored.
Load ==
  /\ pc = "load"
  /\ auth_token' = IF Parses(store)
       THEN [access |-> TRUE, refresh |-> TRUE, is_valid |-> store_left > 0]
       ELSE NoToken
  /\ left' = IF Parses(store) THEN store_left ELSE Past
  /\ pc' = IF auth_token'.is_valid THEN "register" ELSE "authenticate"
  /\ UNCHANGED <<nap, file, response, service, ghosts>>

----------------------------------------------------------------------------
(* http_request and authenticate *)

\* What follows a call of authenticate, at the start and in the loop.
Return ==
  /\ pc' = IF pc = "renew" THEN "sleep" ELSE "register"
  /\ nap' = IF pc = "renew" THEN POLL ELSE nap
  /\ wait' = 0
  /\ issued' = FALSE /\ fresh' = Past

Authenticating == pc \in {"authenticate", "renew"}

\* The request reaches the service, which issues a token: from now on it counts.
Issue ==
  /\ Authenticating
  /\ ~issued
  /\ issued' = TRUE
  /\ fresh' = GRANT
  /\ UNCHANGED <<pc, auth_token, left, nap, file, response, granted, ghosts>>

\* Mutant of Accept: the life time is added to what is left of the old token.
AcceptExtends(access) ==
  /\ auth_token' = [auth_token EXCEPT !.access = access, !.is_valid = TRUE]
  /\ left' = IF left > 0 THEN left + LIFETIME ELSE LIFETIME

Accept(access) ==
  /\ auth_token' = [auth_token EXCEPT !.access = access, !.is_valid = TRUE]
  /\ left' = LIFETIME

(* The answer arrives with its token, perhaps an empty one. *)
Answer ==
  /\ Authenticating
  /\ issued
  /\ \E access \in BOOLEAN : Accept(access) /\ served' = (served /\ access)
  /\ Save(auth_token')
  /\ response' = TRUE
  /\ granted' = fresh
  /\ reused' = FALSE
  /\ Return

(* The answer has no token, or one that is too long. *)
Malformed ==
  /\ Authenticating
  /\ response' = FALSE
  /\ served' = FALSE
  /\ Return
  /\ UNCHANGED <<auth_token, left, file, granted, reused>>

(* The connection ends without an answer: http_request succeeds and the       *)
(* buffer, which was not initialised, is searched for a token.                *)
Silence ==
  /\ Authenticating
  /\ served' = FALSE
  /\ Return
  /\ \/ /\ response
        /\ Accept(auth_token.access)
        /\ Save(auth_token')
        /\ reused' = TRUE
     \/ UNCHANGED <<auth_token, left, file, reused>>
  /\ UNCHANGED <<response, granted>>

\* Mutant of Fail: a failure ends the validity of the token.
FailInvalidates ==
  /\ Authenticating
  /\ ~issued
  /\ served' = FALSE
  /\ Return
  /\ auth_token' = [auth_token EXCEPT !.is_valid = FALSE]
  /\ UNCHANGED <<left, file, response, granted, reused>>

(* No address, or no connection. *)
Fail ==
  /\ Authenticating
  /\ ~issued
  /\ served' = FALSE
  /\ Return
  /\ UNCHANGED <<auth_token, left, file, response, granted, reused>>

----------------------------------------------------------------------------
(* The rest of main *)

\* register_device: whatever comes of it.
Register ==
  /\ pc = "register"
  /\ pc' = "sleep"
  /\ nap' = POLL
  /\ wait' = 0
  /\ UNCHANGED <<auth_token, left, file, response, service, served, reused>>

\* Mutant of IsExpiring: the token is renewed when it has expired.
IsExpired == auth_token.is_valid /\ left < 0

\* Mutant of IsExpiring: when it would not last through the next sleep and request.
IsExpiringSoon == auth_token.is_valid /\ left <= POLL + MaxLatency

IsExpiring == auth_token.is_valid /\ left < MARGIN

Wake ==
  /\ pc = "sleep" /\ nap = 0
  /\ pc' = IF IsExpiring THEN "renew" ELSE "sleep"
  /\ nap' = IF IsExpiring THEN 0 ELSE POLL
  /\ UNCHANGED <<auth_token, left, file, response, service, ghosts>>

\* The process is killed, at the earliest right after it has started; its token is
\* gone with it, and so is an answer on its way.
Die ==
  /\ pc' = "dead"
  /\ auth_token' = NoToken
  /\ left' = Past
  /\ nap' = 0
  /\ response' = FALSE
  /\ wait' = 0
  /\ issued' = FALSE /\ fresh' = Past /\ granted' = Past
  /\ reused' = FALSE
  /\ UNCHANGED served

Crash ==
  /\ pc # "dead"
  /\ Die
  /\ UNCHANGED file

\* The same while save_token writes: the file was emptied when it was opened, and
\* holds no more than the first words.
CrashInSave ==
  /\ Authenticating
  /\ issued \/ response
  /\ \E access \in BOOLEAN, n \in 0 .. 1 :
       store' = SubSeq(Saved([auth_token EXCEPT !.access = access]), 1, n)
  /\ store_left' = LIFETIME
  /\ Die

\* It is started again: by the next boot, or by the supervisor.
Restart ==
  /\ pc = "dead"
  /\ pc' = "load"
  /\ served' = TRUE
  /\ UNCHANGED <<auth_token, left, nap, file, response, service, wait, reused>>

Later(t) == IF t = Past THEN Past ELSE t - 1

\* A second passes.  The process runs when it is its turn; requests take any time.
Tick ==
  /\ pc \in {"sleep", "dead"} \/ Requesting
  /\ pc = "sleep" => nap > 0
  /\ nap' = IF nap > 0 THEN nap - 1 ELSE 0
  /\ left' = Later(left)
  /\ store_left' = Later(store_left)
  /\ fresh' = Later(fresh)
  /\ granted' = Later(granted)
  /\ wait' = IF Requesting /\ wait < MaxLatency THEN wait + 1 ELSE wait
  /\ served' = (served /\ ~(Requesting /\ wait = MaxLatency))
  /\ UNCHANGED <<pc, auth_token, store, response, issued, reused>>

\* What ends a request.
Network == Answer \/ Malformed \/ Silence \/ Fail

Next ==
  \/ Load \/ Register \/ Wake
  \/ Issue \/ Network
  \/ Crash \/ CrashInSave \/ Restart
  \/ Tick

(* The process runs; a clock runs; and the service is not away for ever: if it *)
(* is asked again and again it issues a token, and its answer arrives, in the  *)
(* end.                                                                        *)
Fairness ==
  /\ WF_vars(Load) /\ WF_vars(Register) /\ WF_vars(Wake)
  /\ WF_vars(Network) /\ WF_vars(Tick)
  /\ SF_vars(Issue) /\ SF_vars(Answer)

Spec == Init /\ [][Next]_vars /\ Fairness

----------------------------------------------------------------------------
(* Properties. *)

\* Renewing MARGIN seconds ahead and looking every POLL seconds is early enough:
\* while every request of the process was answered in time it has, from its
\* first token on, never one that has expired by its own clock.
NeverLapses ==
  served /\ pc \in {"register", "sleep", "renew"} => auth_token.is_valid /\ left > 0

\* Nor one that the service no longer honours.  The client sets the expiry when it
\* reads the answer, later than the service did, and to LIFETIME, whatever the
\* service grants: the margin has to make up for both as well.
HonouredWhileServed ==
  served /\ pc \in {"register", "sleep", "renew"} => auth_token.access /\ granted > 0

\* A token that has expired while the service was away is replaced once it is
\* back: the loop does not give up.
Renews ==
  auth_token.is_valid /\ left <= 0 ~> left > 0 \/ pc = "dead"

\* A token whose expiry was set from an old response, and which the service may
\* long have ceased to honour, is replaced by one that it has issued, or gone.
ReuseHeals == reused ~> ~reused
=============================================================================
