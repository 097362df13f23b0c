--------------------------- MODULE SpotifyClient ---------------------------
(***************************************************************************)
(* agent-api's Spotify adapter (app/clients/spotify.py).  One client object *)
(* serves every request (api/deps.py caches it), so the worker threads of  *)
(* concurrent turns share its three fields: the cached access token, its   *)
(* expiry and the refresh token.  Nothing locks them, and each assignment  *)
(* and each re-read of a field is a step of its own here.                  *)
(*                                                                         *)
(* Tokens are numbers and 0 is the empty string; Spotify issues one that   *)
(* nobody holds.  A refresh may rotate the refresh token, which revokes    *)
(* the old one.  Everything that goes wrong outside the client (a lost answer, an  *)
(* error status, a revoked token) is charged to MaxFaults.                 *)
(***************************************************************************)
EXTENDS Integers, Sequences, SequencesExt

CONSTANTS Calls,        \* tool calls, each on a thread of its own
          Methods,      \* Methods[c]: the client methods c may use, each
                        \* <<method, whether the caller names a device>>
          MaxRetries,   \* _max_retries
          MaxFaults,    \* bound: faults outside the client
          MaxExpiries   \* bound: times the clock passes _token_expires_at

ASSUME SpotifyAssumption == /\ IsFiniteSet(Calls)
                            /\ Methods \in [Calls -> SUBSET (STRING \X BOOLEAN)]
                            /\ MaxRetries \in Nat
                            /\ MaxFaults \in Nat
                            /\ MaxExpiries \in Nat

VARIABLES cached,       \* _cached_token
          expiry,       \* _token_expires_at against time(): past, ahead, never
          refresh,      \* _refresh_token
          credentials,  \* _client_id and _client_secret are set
          spotify,      \* the service: live tokens, app-only ones, the accepted
                        \* refresh token, whether it rotates that at a refresh,
                        \* and whether a rotated one went unheard
          call,         \* call[c]: the thread of c
          faults,       \* faults so far
          expiries      \* expiries so far

client == <<cached, expiry, refresh, credentials>>
vars == <<client, spotify, call, faults, expiries>>

NoToken == 0

(* The requests of one client method, in order.  A playback method asks    *)
(* for the devices first unless the caller names one.                      *)
Target(device) == IF device THEN <<>> ELSE <<"devices">>

Requests(op, device) ==
  CASE op = "search_tracks"  -> <<"search">>
    [] op = "list_playlists" -> <<"playlists">>
    [] op = "start_station"  -> <<"search">> \o Target(device) \o <<"player">>
    [] OTHER                 -> Target(device) \o <<"player">>

Request(c) == Head(call[c].todo)

LastRequest(c) == Len(call[c].todo) = 1

-----------------------------------------------------------------------------
(* The thread of a call.  hurt and alone are history: something outside    *)
(* the client failed during the call, and no other call overlapped it.     *)

Idle == [pc |-> "idle", todo |-> <<>>, attempt |-> 0, grant |-> 0,
         body |-> NoToken, answer |-> [token |-> NoToken, refresh |-> NoToken],
         bearer |-> NoToken,
         performed |-> 0, lost |-> 0, hurt |-> FALSE, alone |-> TRUE]

Over(k) == k.pc \in {"ok", "failed"}
Running(k) == k.pc # "idle" /\ ~Over(k)

(* The thread is gone; what its caller and its history know remains.       *)
End(k, pc) == [Idle EXCEPT !.pc = pc, !.performed = k.performed,
                           !.lost = k.lost, !.hurt = k.hurt, !.alone = k.alone]

Raise(k) == End(k, "failed")

Hurt(k) == [k EXCEPT !.hurt = TRUE]

(* Mutant: one attempt too many.                                           *)
AgainTooOften(k) == IF k.attempt <= MaxRetries + 1
                     THEN [k EXCEPT !.pc = "resolve", !.attempt = @ + 1]
                     ELSE Raise(k)

(* except httpx.TimeoutException / httpx.RequestError: another attempt, or *)
(* an APIError once the retries are spent.                                 *)
Again(k) == IF k.attempt <= MaxRetries
            THEN [k EXCEPT !.pc = "resolve", !.attempt = @ + 1,
                           !.bearer = NoToken]
            ELSE Raise(k)

(* Mutant: a method that ends with the request before its last.            *)
OnwardTooFar(k) == IF Len(k.todo) <= 2
                   THEN End(k, "ok")
                   ELSE [k EXCEPT !.pc = "resolve", !.todo = Tail(@), !.attempt = 1,
                              !.bearer = NoToken]

(* A request that got its answer: the next one starts with attempt 1.      *)
Onward(k) == IF Len(k.todo) = 1
             THEN End(k, "ok")
             ELSE [k EXCEPT !.pc = "resolve", !.todo = Tail(@), !.attempt = 1,
                              !.bearer = NoToken]

(* The last request is the one the caller asked for.                       *)
Count(k) == [k EXCEPT !.performed = IF Len(k.todo) = 1 THEN @ + 1 ELSE @]

CountLost(k) == [k EXCEPT !.lost = IF Len(k.todo) = 1 THEN @ + 1 ELSE @]

-----------------------------------------------------------------------------
(* An access token that search accepts, and one that speaks for the user.  *)
Accepts(bearer, request) ==
  /\ bearer \in spotify.live
  /\ request # "search" => bearer \notin spotify.apponly

Init ==
  /\ cached \in {NoToken, 1}
  /\ expiry = IF cached = NoToken THEN "past" ELSE "never"
  /\ refresh \in {NoToken, 1}
  /\ credentials \in BOOLEAN
  /\ cached # NoToken \/ credentials
  /\ \E rotates \in {FALSE, refresh # NoToken} :
       spotify = [live |-> {1}, apponly |-> {}, accepted |-> 1,
                  rotates |-> rotates, unheard |-> FALSE]
  /\ call = [c \in Calls |-> Idle]
  /\ faults = 0 /\ expiries = 0

Fault == faults < MaxFaults /\ faults' = faults + 1

Becomes(c, k) == call' = [call EXCEPT ![c] = k]

(* A method is called: every other running call now has company.           *)
Begin(c) ==
  /\ call[c].pc = "idle"
  /\ \E op \in Methods[c] :
       LET company == {d \in Calls \ {c} : Running(call[d])}
       IN  call' = [d \in Calls |->
             IF d = c THEN [Idle EXCEPT !.pc = "resolve", !.attempt = 1,
                              !.todo = Requests(op[1], op[2]),
                              !.alone = company = {}]
             ELSE IF d \in company THEN [call[d] EXCEPT !.alone = FALSE]
             ELSE call[d]]
  /\ UNCHANGED <<client, spotify, faults, expiries>>

(* _resolve_token: the check of the cached token, or the choice of a grant.*)
(* A grant fixes its body here: every retry of it repeats that body.       *)
Resolved(k) ==
  CASE cached # NoToken /\ expiry # "past" -> [k EXCEPT !.pc = "return"]
    [] ~(cached # NoToken /\ expiry # "past") /\ credentials ->
         [k EXCEPT !.pc = "grant", !.grant = 1, !.body = refresh]
    [] OTHER -> Raise(k)

Resolve(c) ==
  /\ call[c].pc = "resolve"
  /\ Becomes(c, Resolved(call[c]))
  /\ UNCHANGED <<client, spotify, faults, expiries>>

(* return self._cached_token: the field is read again, and may be empty.   *)
Return(c) ==
  /\ call[c].pc = "return"
  /\ Becomes(c, [call[c] EXCEPT !.pc = "send", !.bearer = cached])
  /\ UNCHANGED <<client, spotify, faults, expiries>>

(* Spotify's token endpoint: a client-credentials grant yields an app-only *)
(* token; a refresh is refused unless the body names the accepted token.   *)
Unheld(held) == Min({t \in 1..Cardinality(held) + 1 : t \notin held})

Held == {cached} \union UNION {{call[c].bearer, call[c].answer.token} : c \in Calls}

HeldRefresh == {refresh, spotify.accepted}
                 \union UNION {{call[c].body, call[c].answer.refresh} : c \in Calls}

Rotates(body) == spotify.rotates /\ body # NoToken

Granted(body, unheard) ==
  LET token == Unheld(Held)
  IN  [live     |-> (spotify.live \intersect Held) \union {token},
       apponly  |-> (spotify.apponly \intersect Held)
                      \union {t \in {token} : body = NoToken},
       accepted |-> IF Rotates(body) THEN Unheld(HeldRefresh)
                    ELSE spotify.accepted,
       rotates  |-> spotify.rotates,
       unheard  |-> spotify.unheard \/ (Rotates(body) /\ unheard)]

AgainGrant(k) == IF k.grant <= MaxRetries THEN [k EXCEPT !.grant = @ + 1]
                 ELSE Raise(k)

Honoured(k) == k.body \in {NoToken, spotify.accepted}

(* _fetch_refresh_token / _fetch_client_credentials_token: the answer.     *)
Grant(c) ==
  /\ call[c].pc = "grant" /\ Honoured(call[c])
  /\ spotify' = Granted(call[c].body, FALSE)
  /\ Becomes(c, [call[c] EXCEPT !.pc = "keep", !.body = NoToken,
       !.answer = [token   |-> Unheld(Held),
                   refresh |-> IF Rotates(call[c].body) THEN spotify'.accepted
                               ELSE NoToken]])
  /\ UNCHANGED <<client, faults, expiries>>

(* The refresh token is no longer accepted: 400, and an APIError.          *)
GrantRefused(c) ==
  /\ call[c].pc = "grant" /\ ~Honoured(call[c])
  /\ Becomes(c, Raise(call[c]))
  /\ UNCHANGED <<client, spotify, faults, expiries>>

(* The answer is lost, or is an error status or a malformed payload (both  *)
(* raise at once); Spotify may have acted on the request.                  *)
GrantLost(c) ==
  /\ call[c].pc = "grant" /\ Fault
  /\ \E k \in {AgainGrant(call[c]), Raise(call[c])} : Becomes(c, Hurt(k))
  /\ \/ UNCHANGED spotify
     \/ Honoured(call[c]) /\ spotify' = Granted(call[c].body, TRUE)
  /\ UNCHANGED <<client, expiries>>

(* Mutant: the rotated refresh token is not stored.                        *)
KeptRefreshOld(k) == refresh

(* The three assignments at the end of a grant, in the code's order.       *)
KeptRefresh(k) == IF k.answer.refresh = NoToken THEN refresh
                  ELSE k.answer.refresh

KeepRefresh(c) ==
  /\ call[c].pc = "keep"
  /\ refresh' = KeptRefresh(call[c])
  /\ Becomes(c, [call[c] EXCEPT !.pc = "store", !.answer.refresh = NoToken])
  /\ UNCHANGED <<cached, expiry, credentials, spotify, faults, expiries>>

StoreToken(c) ==
  /\ call[c].pc = "store"
  /\ cached' = call[c].answer.token
  /\ Becomes(c, [call[c] EXCEPT !.pc = "extend", !.answer = Idle.answer])
  /\ UNCHANGED <<expiry, refresh, credentials, spotify, faults, expiries>>

ExtendExpiry(c) ==
  /\ call[c].pc = "extend"
  /\ expiry' = "ahead"
  /\ Becomes(c, [call[c] EXCEPT !.pc = "return"])
  /\ UNCHANGED <<cached, refresh, credentials, spotify, faults, expiries>>

-----------------------------------------------------------------------------
(* _perform_request with a bearer: one action per outcome.                 *)

Sending(c) == call[c].pc = "send"

(* An empty bearer is no legal header value: httpx raises a RequestError   *)
(* before anything is sent.                                                *)
SendEmpty(c) ==
  /\ Sending(c) /\ call[c].bearer = NoToken
  /\ Becomes(c, Again(call[c]))
  /\ UNCHANGED <<client, spotify, faults, expiries>>

(* 200, 201, 202 or 204.                                                   *)
Carried(c) ==
  /\ Sending(c) /\ Accepts(call[c].bearer, Request(c))
  /\ Becomes(c, Onward(Count(call[c])))
  /\ UNCHANGED <<client, spotify, faults, expiries>>

(* A 2xx answer the caller cannot use: a malformed payload, no active      *)
(* device, no playable track.  The answer of a player command is not read. *)
Unusable(c) ==
  /\ Sending(c) /\ Accepts(call[c].bearer, Request(c)) /\ Fault
  /\ Request(c) # "player"
  /\ Becomes(c, Hurt(Raise(Count(call[c]))))
  /\ UNCHANGED <<client, spotify, expiries>>

(* Mutants: a refusal that gives up; one that tries a token it cannot      *)
(* renew again and again.                                                  *)
AfterRefusalFailing(k) == Raise(k)

AfterRefusalUncounted(k) ==
  IF credentials THEN [k EXCEPT !.pc = "clear"] ELSE [k EXCEPT !.pc = "resolve"]

(* 401 or 403: the bearer is not accepted, or (a fault) the account lacks  *)
(* Premium.  Without credentials there is nothing to renew.                *)
AfterRefusal(k) ==
  IF credentials THEN [k EXCEPT !.pc = "clear"] ELSE Raise(k)

Refused(c) ==
  /\ Sending(c) /\ call[c].bearer # NoToken
  /\ ~Accepts(call[c].bearer, Request(c))
  /\ Becomes(c, AfterRefusal(call[c]))
  /\ UNCHANGED <<client, spotify, faults, expiries>>

Forbidden(c) ==
  /\ Sending(c) /\ Accepts(call[c].bearer, Request(c)) /\ Fault
  /\ Becomes(c, Hurt(AfterRefusal(call[c])))
  /\ UNCHANGED <<client, spotify, expiries>>

(* Mutant: an error status is retried.                                     *)
AfterBrokenRetried(k) == Again(k)

(* Any other status: raised at once, whether Spotify acted or not.         *)
AfterBroken(k) == Raise(k)

Broken(c) ==
  /\ Sending(c) /\ call[c].bearer # NoToken /\ Fault
  /\ \/ Becomes(c, Hurt(AfterBroken(call[c])))
     \/ /\ Accepts(call[c].bearer, Request(c))
        /\ Becomes(c, Hurt(AfterBroken(Count(call[c]))))
  /\ UNCHANGED <<client, spotify, expiries>>

(* A timeout or a broken connection: the request may have been carried out.*)
Lost(c) ==
  /\ Sending(c) /\ call[c].bearer # NoToken /\ Fault
  /\ \/ Becomes(c, Hurt(Again(call[c])))
     \/ /\ Accepts(call[c].bearer, Request(c))
        /\ Becomes(c, Hurt(Again(CountLost(Count(call[c])))))
  /\ UNCHANGED <<client, spotify, expiries>>

(* self._cached_token = "" and self._token_expires_at = 0.0: whatever the  *)
(* fields hold by now, another thread's newer token included.              *)
Clear(c) ==
  /\ call[c].pc = "clear"
  /\ cached' = NoToken
  /\ Becomes(c, [call[c] EXCEPT !.pc = "clear_expiry"])
  /\ UNCHANGED <<expiry, refresh, credentials, spotify, faults, expiries>>

ClearExpiry(c) ==
  /\ call[c].pc = "clear_expiry"
  /\ expiry' = "past"
  /\ Becomes(c, Again(call[c]))
  /\ UNCHANGED <<cached, refresh, credentials, spotify, faults, expiries>>

-----------------------------------------------------------------------------
(* The clock passes _token_expires_at; Spotify drops an access token.      *)
Expire == /\ expiry = "ahead" /\ expiries < MaxExpiries
          /\ expiry' = "past" /\ expiries' = expiries + 1
          /\ UNCHANGED <<cached, refresh, credentials, spotify, call, faults>>

Revoke == /\ Fault
          /\ \E t \in spotify.live :
               spotify' = [spotify EXCEPT !.live = @ \ {t},
                                          !.apponly = @ \ {t}]
          /\ call' = [c \in Calls |-> IF Running(call[c]) THEN Hurt(call[c])
                                      ELSE call[c]]
          /\ UNCHANGED <<client, expiries>>

Step(c) == \/ Resolve(c) \/ Return(c)
           \/ Grant(c) \/ GrantRefused(c) \/ GrantLost(c)
           \/ KeepRefresh(c) \/ StoreToken(c) \/ ExtendExpiry(c)
           \/ SendEmpty(c) \/ Carried(c) \/ Unusable(c) \/ Refused(c)
           \/ Forbidden(c) \/ Broken(c) \/ Lost(c)
           \/ Clear(c) \/ ClearExpiry(c)

AllOver == (\A c \in Calls : Over(call[c])) /\ UNCHANGED vars

Next == (\E c \in Calls : Begin(c) \/ Step(c)) \/ Expire \/ Revoke \/ AllOver

(* A thread is scheduled until its call ends and every request has a       *)
(* timeout; nothing obliges a call to begin, a token to expire or be lost. *)
Spec == Init /\ [][Next]_vars /\ \A c \in Calls : WF_vars(Step(c))

-----------------------------------------------------------------------------
Threads ==
  {"idle", "resolve", "return", "grant", "keep", "store", "extend", "send",
   "clear", "clear_expiry", "ok", "failed"}

(* Type invariant.  A request is tried at most MaxRetries + 1 times, and so *)
(* is the token request inside it (_perform_request counts both alike).    *)
TypeOK ==
  /\ cached \in Nat /\ expiry \in {"past", "ahead", "never"}
  /\ refresh \in Nat /\ credentials \in BOOLEAN
  /\ spotify.live \subseteq Nat /\ spotify.apponly \subseteq spotify.live
  /\ \A c \in Calls :
       /\ call[c].pc \in Threads
       /\ call[c].attempt \in 0..MaxRetries + 1
       /\ call[c].grant \in 0..MaxRetries + 1
       /\ call[c].todo \in SeqOf({"search", "playlists", "devices", "player"}, 3)
       /\ call[c].bearer \in Nat
  /\ faults \in 0..MaxFaults /\ expiries \in 0..MaxExpiries

(* Spotify carries a request of a call out once more than the first time   *)
(* only for an execution whose answer was lost: an error status is raised  *)
(* and never retried, and a refusal means nothing was done.  (The retry    *)
(* itself is not safe for next_track, which then skips twice.)             *)
RepeatedOnlyAfterLostAnswer ==
  \A c \in Calls : call[c].performed <= 1 + call[c].lost

(* However the threads' grants and clears interleave, the client never     *)
(* loses a rotated refresh token it was told of: the stored one is the one *)
(* Spotify accepts, or a thread is about to store it, or the answer that   *)
(* carried it was lost (and then nothing brings the client back).          *)
KeepsRotatedToken ==
  credentials /\ refresh # NoToken =>
    \/ refresh = spotify.accepted
    \/ spotify.unheard
    \/ \E c \in Calls : call[c].pc = "keep"
                        /\ call[c].answer.refresh = spotify.accepted

(* A call that met no failure outside the client and no other call, in a   *)
(* client that can refresh, succeeds whatever earlier calls left in the    *)
(* cache: an expired, dropped or cleared token costs a renewal, no more.   *)
SucceedsAlone ==
  credentials /\ refresh # NoToken /\ ~spotify.unheard =>
    \A c \in Calls : call[c].pc = "failed" => call[c].hurt \/ ~call[c].alone

(* Every call ends, with an answer or an APIError.                         *)
EveryCallEnds == \A c \in Calls : Running(call[c]) ~> Over(call[c])

Phase(k) == IF k.pc = "idle" \/ Over(k) THEN k.pc ELSE "running"

Adapter == INSTANCE ToolAdapter
             WITH phase     <- [c \in Calls |-> Phase(call[c])],
                  performed <- [c \in Calls |-> call[c].performed]

(* The client is a tool adapter: "ok" is answered only for a command that  *)
(* was carried out, and never more often than its retries allow.           *)
ImplementsAdapter == Adapter!Spec
=============================================================================
