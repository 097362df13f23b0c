------------------------ MODULE SpotifyClientProofs ------------------------
(***************************************************************************)
(* Proofs about SpotifyClient for any number of concurrent calls, retries, *)
(* faults and expiries.                                                    *)
(***************************************************************************)
EXTENDS SpotifyClient, TLAPS, FiniteSetTheorems, SequenceTheorems,
        WellFoundedInduction

-----------------------------------------------------------------------------
(* The invariant. *)

Requested == {"search", "playlists", "devices", "player"}
Todo      == SeqOf(Requested, 3)
Tokens    == [token : Nat, refresh : Nat]

CallState == [pc : Threads, todo : Todo, attempt : 0..MaxRetries + 1,
              grant : 0..MaxRetries + 1, body : Nat, answer : Tokens, bearer : Nat,
              performed : Nat, lost : Nat, hurt : BOOLEAN, alone : BOOLEAN]

SpotifyState == [live : SUBSET Nat, apponly : SUBSET Nat, accepted : Nat \ {0},
                 rotates : BOOLEAN, unheard : BOOLEAN]

\* TypeOK with the whole of every record.
Typed ==
    /\ cached \in Nat /\ expiry \in {"past", "ahead", "never"}
    /\ refresh \in Nat /\ credentials \in BOOLEAN
    /\ spotify \in SpotifyState /\ spotify.apponly \subseteq spotify.live
    /\ call \in [Calls -> CallState]
    /\ faults \in 0..MaxFaults /\ expiries \in 0..MaxExpiries

\* A call that runs has carried its command out at most once per earlier
\* attempt, lost the answer each time, and not at all before the last request.
Counted(k) ==
    /\ Running(k) =>
         /\ k.todo # <<>> /\ k.attempt >= 1
         /\ k.performed < k.attempt /\ k.performed <= k.lost
         /\ Len(k.todo) # 1 => k.performed = 0
    /\ k.pc = "idle" => k.performed = 0
    /\ k.performed <= 1 + k.lost

\* Refresh tokens: where the client may hold one, and that a rotated one which
\* it was told of and has not stored yet is held by that thread only.
Holds(k) ==
    /\ k.body # NoToken => k.pc = "grant"
    /\ k.answer.refresh # NoToken => k.pc = "keep"

Unrefreshed ==
    refresh = NoToken => \A c \in Calls : /\ call[c].body = NoToken
                                          /\ call[c].answer.refresh = NoToken

Refreshed ==
    refresh # NoToken => /\ spotify.apponly = {}
                         /\ \A c \in Calls : call[c].pc = "grant" => call[c].body # NoToken

Told(c) ==
    call[c].answer.refresh # NoToken =>
        /\ call[c].answer.refresh = spotify.accepted /\ refresh # spotify.accepted
        /\ \A d \in Calls : /\ call[d].body # spotify.accepted
                            /\ d # c => call[d].answer.refresh = NoToken

Rotation ==
    /\ \A c \in Calls : Holds(call[c])
    /\ Unrefreshed
    /\ Refreshed
    /\ \A c \in Calls : Told(c)
    /\ KeepsRotatedToken

\* A call without company that nothing outside has hurt: its bearer may be stale
\* the first time, and is live the second.
Undisturbed(k) == Running(k) /\ k.alone /\ ~k.hurt

Alone(c) ==
    LET k == call[c]
    IN  /\ \A d \in Calls \ {c} : ~Running(call[d])
        /\ k.attempt <= 2
        /\ k.pc = "keep" \/ refresh = spotify.accepted
        /\ k.pc = "grant" => k.body = spotify.accepted
        /\ k.pc \in {"keep", "store"} => k.answer.token \in spotify.live \ {NoToken}
        /\ k.pc = "extend" => cached \in spotify.live \ {NoToken}
        /\ k.pc = "return" => cached # NoToken
        /\ k.pc = "return" /\ k.attempt = 2 => cached \in spotify.live
        /\ k.pc = "send" => k.bearer # NoToken
        /\ k.pc = "send" /\ k.attempt = 2 => k.bearer \in spotify.live
        /\ k.pc \in {"clear", "clear_expiry"} => k.attempt = 1
        /\ k.pc = "clear_expiry" \/ (k.pc = "resolve" /\ k.attempt = 2) => cached = NoToken

CanRefresh == credentials /\ refresh # NoToken /\ ~spotify.unheard

Solo == CanRefresh => \A c \in Calls : Undisturbed(call[c]) => Alone(c)

Inv ==
    /\ Typed
    /\ \A c \in Calls : Counted(call[c])
    /\ Rotation

-----------------------------------------------------------------------------
(* Operators. *)

LEMMA TodoLen == Todo = {t \in Seq(Requested) : Len(t) <= 3}
<1>1. Todo = UNION {[1..m -> Requested] : m \in 0..3}
  BY DEF Todo, SeqOf
<1>2. ASSUME NEW m \in 0..3, NEW t \in [1..m -> Requested]
      PROVE  t \in Seq(Requested) /\ Len(t) <= 3
  <2>1. \A i \in 1..m : t[i] \in Requested
    OBVIOUS
  <2>2. t \in Seq(Requested)
    BY SMT
  <2>3. 1..m = 1..Len(t) /\ Len(t) \in Nat
    BY <2>2, LenProperties
  <2> QED
    BY <2>2, <2>3
<1>3. ASSUME NEW t \in Seq(Requested), Len(t) <= 3
      PROVE  \E m \in 0..3 : t \in [1..m -> Requested]
  <2>1. Len(t) \in 0..3
    <3>1. PICK n \in Nat : n = Len(t)
      BY LenProperties
    <3> QED
      BY <1>3, <3>1
  <2>2. t \in [1..Len(t) -> Requested]
    BY LenProperties
  <2> QED
    BY <2>1, <2>2
<1> QED
  BY <1>1, <1>2, <1>3

LEMMA TodoTail ==
    ASSUME NEW t \in Todo, t # <<>>
    PROVE  /\ Head(t) \in Requested /\ Len(t) \in Nat /\ Len(t) >= 1
           /\ Tail(t) \in Todo /\ Len(Tail(t)) = Len(t) - 1
           /\ Len(t) # 1 => Tail(t) # <<>>
<1>1. t \in Seq(Requested) /\ Len(t) <= 3
  BY TodoLen
<1>2. /\ Len(t) \in Nat /\ Len(t) >= 1 /\ Head(t) \in Requested
      /\ Tail(t) \in Seq(Requested) /\ Len(Tail(t)) = Len(t) - 1
  BY <1>1, HeadTailProperties, EmptySeq, LenProperties
<1>3. Len(t) # 1 => Tail(t) # <<>>
  BY <1>2, EmptySeq
<1> QED
  BY <1>1, <1>2, <1>3, TodoLen

\* Every method of the client asks for something, three requests at most.
LEMMA RequestsType ==
    ASSUME NEW op, NEW device \in BOOLEAN
    PROVE  Requests(op, device) \in Todo /\ Requests(op, device) # <<>>
<1> DEFINE S == Seq(Requested)
<1>1. /\ \A x \in Requested : <<x>> \in S /\ Len(<<x>>) = 1
      /\ <<>> \in S /\ Len(<<>>) = 0
  OBVIOUS
<1>2. \A s, t \in S : s \o t \in S /\ Len(s \o t) = Len(s) + Len(t)
  BY ConcatProperties
<1>3. \A s \in S : Len(s) \in Nat /\ (Len(s) # 0 => s # <<>>)
  BY LenProperties, EmptySeq
<1>4. {"search", "playlists", "devices", "player"} \subseteq Requested
  BY DEF Requested
<1>5. Target(device) \in S /\ Len(Target(device)) <= 1
  BY <1>1, <1>4 DEF Target
<1> HIDE DEF S
<1>6. /\ Requests(op, device) \in S
      /\ Len(Requests(op, device)) \in 1..3
  <2>1. <<"search">> \o Target(device) \in S
        /\ Len(<<"search">> \o Target(device)) = 1 + Len(Target(device))
    BY <1>1, <1>2, <1>4, <1>5
  <2>2. <<"search">> \o Target(device) \o <<"player">> \in S
        /\ Len(<<"search">> \o Target(device) \o <<"player">>) = 2 + Len(Target(device))
    BY <1>1, <1>2, <1>3, <1>4, <1>5, <2>1
  <2>3. Target(device) \o <<"player">> \in S
        /\ Len(Target(device) \o <<"player">>) = 1 + Len(Target(device))
    BY <1>1, <1>2, <1>3, <1>4, <1>5
  <2> QED
    BY <1>1, <1>3, <1>4, <1>5, <2>2, <2>3 DEF Requests
<1>7. Requests(op, device) \in Seq(Requested)
  BY <1>6 DEF S
<1>8. Requests(op, device) # <<>>
  BY <1>6, EmptySeq
<1>9. Len(Requests(op, device)) <= 3
  <2>1. PICK n \in 1..3 : n = Len(Requests(op, device))
    BY <1>6
  <2> QED
    BY <2>1
<1>10. Requests(op, device) \in {t \in Seq(Requested) : Len(t) <= 3}
  BY <1>7, <1>9
<1> QED
  BY <1>8, <1>10, TodoLen

\* Spotify issues a token that nobody holds.
LEMMA UnheldToken ==
    ASSUME NEW held, IsFiniteSet(held)
    PROVE  Unheld(held) \in Nat \ {0} /\ Unheld(held) \notin held
<1> DEFINE N == 1..Cardinality(held) + 1
           T == {t \in N : t \notin held}
<1>1. Cardinality(held) \in Nat
  BY FS_CardinalityType
<1>2. IsFiniteSet(N) /\ Cardinality(N) = Cardinality(held) + 1
  <2>1. Cardinality(N) = IF 1 > Cardinality(held) + 1 THEN 0
                         ELSE (Cardinality(held) + 1) - 1 + 1
    BY <1>1, FS_Interval
  <2>2. IsFiniteSet(N)
    BY <1>1, FS_Interval
  <2> QED
    BY <1>1, <2>1, <2>2
<1>3. T # {}
  <2>1. SUFFICES ASSUME N \subseteq held PROVE FALSE
    OBVIOUS
  <2>2. Cardinality(N) <= Cardinality(held)
    BY <2>1, FS_Subset
  <2> QED
    BY <1>1, <1>2, <2>2
<1>4. \E x \in T : \A y \in T : ~(<<y, x>> \in OpToRel(<, Nat))
  <2>1. T \subseteq Nat
    BY <1>1
  <2> HIDE DEF T
  <2> QED
    BY <1>3, <2>1, NatLessThanWellFounded, WFMin
<1>5. \E x \in T : \A y \in T : x <= y
  <2>1. \A x, y \in Nat : y < x => <<y, x>> \in OpToRel(<, Nat)
    BY DEF OpToRel
  <2>2. T \subseteq Nat
    BY <1>1
  <2> HIDE DEF T
  <2>3. PICK x \in T : \A y \in T : ~(<<y, x>> \in OpToRel(<, Nat))
    BY <1>4
  <2>4. ASSUME NEW y \in T PROVE x <= y
    <3>1. x \in Nat /\ y \in Nat /\ ~(y < x)
      BY <2>1, <2>2, <2>3
    <3> QED
      BY <3>1
  <2> QED
    BY <2>3, <2>4
<1>6. Min(T) \in T
  BY <1>5 DEF Min
<1> QED
  BY <1>1, <1>6 DEF Unheld
LEMMA FamilyFinite ==
    ASSUME NEW F, \A c \in Calls : IsFiniteSet(F[c])
    PROVE  IsFiniteSet(UNION {F[c] : c \in Calls})
<1> DEFINE T == {F[c] : c \in Calls}
           G == [c \in Calls |-> F[c]]
<1>1. G \in Surjection(Calls, T)
  BY DEF Surjection
<1>2. IsFiniteSet(T)
  <2> HIDE DEF T, G
  <2> QED
    BY <1>1, SpotifyAssumption, FS_Surjection DEF SpotifyAssumption
<1>3. \A t \in T : IsFiniteSet(t)
  OBVIOUS
<1> QED
  BY <1>2, <1>3, FS_UNION

LEMMA HeldFinite == IsFiniteSet(Held) /\ IsFiniteSet(HeldRefresh)
<1>1. \A x, y : IsFiniteSet({x}) /\ IsFiniteSet({x, y})
  <2>1. \A x : IsFiniteSet({x})
    BY FS_Singleton
  <2>2. ASSUME NEW x, NEW y PROVE IsFiniteSet({x, y})
    <3>1. IsFiniteSet({x} \cup {y})
      BY <2>1, FS_AddElement
    <3>2. {x, y} = {x} \cup {y}
      OBVIOUS
    <3> QED
      BY <3>1, <3>2
  <2> QED
    BY <2>1, <2>2
<1>2. IsFiniteSet(Held)
  <2> DEFINE F == [c \in Calls |-> {call[c].bearer, call[c].answer.token}]
  <2>1. \A c \in Calls : IsFiniteSet(F[c])
    BY <1>1
  <2> HIDE DEF F
  <2>2. IsFiniteSet(UNION {F[c] : c \in Calls})
    BY <2>1, FamilyFinite
  <2>3. IsFiniteSet({cached} \union UNION {F[c] : c \in Calls})
    BY <1>1, <2>2, FS_Union
  <2>4. Held = {cached} \union UNION {F[c] : c \in Calls}
    BY DEF Held, F
  <2> QED
    BY <2>3, <2>4
<1>3. IsFiniteSet(HeldRefresh)
  <2> DEFINE F == [c \in Calls |-> {call[c].body, call[c].answer.refresh}]
  <2>1. \A c \in Calls : IsFiniteSet(F[c])
    BY <1>1
  <2> HIDE DEF F
  <2>2. IsFiniteSet(UNION {F[c] : c \in Calls})
    BY <2>1, FamilyFinite
  <2>3. IsFiniteSet({refresh, spotify.accepted} \union UNION {F[c] : c \in Calls})
    BY <1>1, <2>2, FS_Union
  <2>4. HeldRefresh = {refresh, spotify.accepted} \union UNION {F[c] : c \in Calls}
    BY DEF HeldRefresh, F
  <2> QED
    BY <2>3, <2>4
<1> QED
  BY <1>2, <1>3

\* The tokens of a grant: an access token, and a refresh token that no thread
\* and no field holds.
LEMMA Issued ==
    /\ Unheld(Held) \in Nat \ {0}
    /\ Unheld(HeldRefresh) \in Nat \ {0}
    /\ Unheld(HeldRefresh) # refresh /\ Unheld(HeldRefresh) # spotify.accepted
    /\ \A c \in Calls : /\ Unheld(HeldRefresh) # call[c].body
                        /\ Unheld(HeldRefresh) # call[c].answer.refresh
<1>1. Unheld(Held) \in Nat \ {0}
  BY HeldFinite, UnheldToken
<1>2. Unheld(HeldRefresh) \in Nat \ {0} /\ Unheld(HeldRefresh) \notin HeldRefresh
  BY HeldFinite, UnheldToken
<1> HIDE DEF HeldRefresh
<1>3. /\ refresh \in HeldRefresh /\ spotify.accepted \in HeldRefresh
      /\ \A c \in Calls : call[c].body \in HeldRefresh /\ call[c].answer.refresh \in HeldRefresh
  BY DEF HeldRefresh
<1> QED
  BY <1>1, <1>2, <1>3

\* Records of calls.
LEMMA CallTypes ==
    ASSUME NEW k \in CallState
    PROVE  /\ Idle \in CallState
           /\ \A pc \in Threads : End(k, pc) \in CallState
           /\ Raise(k) \in CallState
           /\ Hurt(k) \in CallState
           /\ Count(k) \in CallState /\ CountLost(k) \in CallState
           /\ k.attempt >= 1 => Again(k) \in CallState
           /\ k.todo # <<>> => Onward(k) \in CallState
           /\ AgainGrant(k) \in CallState
           /\ AfterRefusal(k) \in CallState
<1> USE SpotifyAssumption DEF SpotifyAssumption, CallState, Tokens, NoToken, Threads
<1>1. Idle \in CallState
  <2>1. <<>> \in Todo
    BY TodoLen
  <2> QED
    BY <2>1 DEF Idle
<1>2. \A pc \in Threads : End(k, pc) \in CallState
  BY <1>1 DEF End, Idle
<1>3. Raise(k) \in CallState
  BY <1>2 DEF Raise
<1>4. Hurt(k) \in CallState
  BY DEF Hurt
<1>5. Count(k) \in CallState /\ CountLost(k) \in CallState
  BY DEF Count, CountLost
<1>6. k.attempt >= 1 => Again(k) \in CallState
  <2>1. ASSUME k.attempt <= MaxRetries
        PROVE  [k EXCEPT !.pc = "resolve", !.attempt = @ + 1, !.bearer = NoToken] \in CallState
    <3>1. k.attempt + 1 \in 0..MaxRetries + 1
      BY <2>1
    <3> QED
      BY <3>1
  <2> QED
    BY <1>3, <2>1 DEF Again
<1>7. k.todo # <<>> => Onward(k) \in CallState
  <2>1. k.todo # <<>> => Tail(k.todo) \in Todo
    BY TodoTail
  <2>2. End(k, "ok") \in CallState
    BY <1>2
  <2>3. ASSUME NEW t \in Todo
        PROVE  [k EXCEPT !.pc = "resolve", !.todo = t, !.attempt = 1,
                         !.bearer = NoToken] \in CallState
    <3>1. 1 \in 0..MaxRetries + 1
      OBVIOUS
    <3> QED
      BY <3>1
  <2> QED
    BY <2>1, <2>2, <2>3 DEF Onward
<1>8. AgainGrant(k) \in CallState
  BY <1>3 DEF AgainGrant
<1>9. AfterRefusal(k) \in CallState
  BY <1>3 DEF AfterRefusal
<1> QED
  BY <1>1, <1>2, <1>3, <1>4, <1>5, <1>6, <1>7, <1>8, <1>9
-----------------------------------------------------------------------------
(* What a step makes of the call that takes it. *)

\* A call goes on or ends.  It may be carried out once more, and is when it ends
\* with an answer.
Outcome(k, l) ==
    /\ l \in CallState /\ Counted(l) /\ l.pc # "idle"
    /\ l.alone = k.alone /\ (k.hurt => l.hurt)
    /\ \/ l.performed = k.performed /\ l.pc # "ok"
       \/ l.performed = k.performed + 1 /\ k.performed <= MaxRetries

\* A call that neither asks for a token nor has one to store.
Tokenless(k) == k.body = NoToken /\ k.answer.refresh = NoToken /\ k.pc # "grant"

LEMMA RunningFacts ==
    ASSUME NEW k \in CallState, Counted(k), Running(k)
    PROVE  /\ k.attempt \in 1..MaxRetries + 1 /\ k.performed \in 0..MaxRetries
           /\ k.performed < k.attempt /\ k.performed <= k.lost /\ k.lost \in Nat
           /\ k.todo \in Todo /\ k.todo # <<>>
           /\ Len(k.todo) # 1 => k.performed = 0
           /\ k.hurt \in BOOLEAN /\ k.alone \in BOOLEAN
<1>1. /\ k.attempt \in 0..MaxRetries + 1 /\ k.performed \in Nat /\ k.lost \in Nat
      /\ k.todo \in Todo /\ k.hurt \in BOOLEAN /\ k.alone \in BOOLEAN
  BY DEF CallState
<1>2. /\ k.todo # <<>> /\ k.attempt >= 1 /\ k.performed < k.attempt
      /\ k.performed <= k.lost /\ (Len(k.todo) # 1 => k.performed = 0)
  BY DEF Counted
<1>3. MaxRetries \in Nat
  BY SpotifyAssumption DEF SpotifyAssumption
<1>4. k.attempt \in 1..MaxRetries + 1 /\ k.performed \in 0..MaxRetries
  BY <1>1, <1>2, <1>3
<1> QED
  BY <1>1, <1>2, <1>4

\* A call that fails, whether Spotify acted on its last request or not.
LEMMA RaiseOutcome ==
    ASSUME NEW k \in CallState, Counted(k), Running(k)
    PROVE  /\ Outcome(k, Raise(k)) /\ Tokenless(Raise(k))
           /\ Outcome(k, Raise(Count(k))) /\ Tokenless(Raise(Count(k)))
           /\ Raise(k).pc = "failed" /\ Raise(Count(k)).pc = "failed"
           /\ Raise(k).hurt = k.hurt
<1>1. ASSUME NEW p \in {k.performed, k.performed + 1}, NEW l,
             l = [k EXCEPT !.performed = p]
      PROVE  Outcome(k, Raise(l)) /\ Tokenless(Raise(l)) /\ Raise(l).pc = "failed"
             /\ Raise(l).hurt = k.hurt
  <2>1. l \in CallState /\ p <= k.lost + 1
    BY <1>1, RunningFacts DEF CallState
  <2>2. Raise(l) \in CallState
    BY <2>1, CallTypes
  <2>3. Raise(l) = [Idle EXCEPT !.pc = "failed", !.performed = p,
                        !.lost = k.lost, !.hurt = k.hurt, !.alone = k.alone]
    BY <1>1 DEF Raise, End, CallState
  <2>4. Counted(Raise(l))
    BY <2>1, <2>3, RunningFacts DEF Counted, Running, Over, Idle
  <2> QED
    BY <2>2, <2>3, <2>4, <1>1, RunningFacts DEF Outcome, Tokenless, Idle, NoToken
<1>2. k = [k EXCEPT !.performed = k.performed]
  BY DEF CallState
<1>3. \E p \in {k.performed, k.performed + 1} : Count(k) = [k EXCEPT !.performed = p]
  BY DEF Count, CallState
<1> QED
  BY <1>1, <1>2, <1>3

LEMMA HurtOutcome ==
    ASSUME NEW k \in CallState, NEW l, Outcome(k, l), Tokenless(l)
    PROVE  Outcome(k, Hurt(l)) /\ Tokenless(Hurt(l)) /\ Hurt(l).hurt
<1>1. l \in CallState /\ Hurt(l) \in CallState
  BY CallTypes DEF Outcome
<1>2. /\ Hurt(l).hurt /\ Hurt(l).pc = l.pc /\ Hurt(l).todo = l.todo
      /\ Hurt(l).attempt = l.attempt /\ Hurt(l).performed = l.performed
      /\ Hurt(l).lost = l.lost /\ Hurt(l).alone = l.alone
      /\ Hurt(l).body = l.body /\ Hurt(l).answer = l.answer
  BY <1>1 DEF Hurt, CallState
<1>3. Counted(Hurt(l))
  BY <1>2 DEF Outcome, Counted, Running, Over
<1> QED
  BY <1>1, <1>2, <1>3 DEF Outcome, Tokenless

\* Another attempt, or the end of them, after an answer that may be lost.
LEMMA AgainOutcome ==
    ASSUME NEW k \in CallState, Counted(k), Running(k),
           k.body = NoToken, k.answer.refresh = NoToken
    PROVE  /\ Outcome(k, Again(k)) /\ Tokenless(Again(k))
           /\ Outcome(k, Again(CountLost(Count(k)))) /\ Tokenless(Again(CountLost(Count(k))))
           /\ Again(k).hurt = k.hurt
           /\ k.attempt <= MaxRetries =>
                Again(k) = [k EXCEPT !.pc = "resolve", !.attempt = k.attempt + 1,
                                     !.bearer = NoToken]
<1> DEFINE With(p, q) == [k EXCEPT !.performed = p, !.lost = q]
<1>1. ASSUME NEW p, NEW q,
             \/ p = k.performed /\ q = k.lost
             \/ p = k.performed + 1 /\ q = k.lost + 1 /\ Len(k.todo) = 1
      PROVE  /\ Outcome(k, Again(With(p, q))) /\ Tokenless(Again(With(p, q)))
             /\ Again(With(p, q)).hurt = k.hurt
  <2> DEFINE l == With(p, q)
  <2>0. l = [k EXCEPT !.performed = p, !.lost = q]
    OBVIOUS
  <2> HIDE DEF l
  <2> SUFFICES Outcome(k, Again(l)) /\ Tokenless(Again(l)) /\ Again(l).hurt = k.hurt
    BY DEF l
  <2>1. p \in Nat /\ q \in Nat /\ p <= q /\ p \in {k.performed, k.performed + 1}
    BY <1>1, RunningFacts
  <2>2. /\ l \in CallState /\ l.performed = p /\ l.lost = q /\ l.todo = k.todo
        /\ l.attempt = k.attempt /\ l.pc = k.pc /\ l.hurt = k.hurt /\ l.alone = k.alone
        /\ l.body = NoToken /\ l.answer.refresh = NoToken
    BY <1>1, <2>0, <2>1 DEF CallState
  <2>3. Again(l) \in CallState
    BY <2>2, CallTypes, RunningFacts
  <2>4. CASE k.attempt <= MaxRetries
    <3>1. Again(l) = [l EXCEPT !.pc = "resolve", !.attempt = @ + 1, !.bearer = NoToken]
      BY <2>2, <2>4 DEF Again
    <3>2. /\ Again(l).pc = "resolve" /\ Again(l).attempt = k.attempt + 1
          /\ Again(l).performed = p /\ Again(l).lost = q /\ Again(l).todo = k.todo
          /\ Again(l).hurt = k.hurt /\ Again(l).alone = k.alone
          /\ Again(l).body = NoToken /\ Again(l).answer.refresh = NoToken
      BY <3>1, <2>2 DEF CallState
    <3>3. Len(k.todo) # 1 => p = 0
      BY <1>1, RunningFacts DEF Counted
    <3>4. Counted(Again(l))
      BY <2>1, <3>2, <3>3, RunningFacts DEF Counted
    <3>5. \/ Again(l).performed = k.performed /\ Again(l).pc # "ok"
          \/ Again(l).performed = k.performed + 1 /\ k.performed <= MaxRetries
      BY <2>1, <3>2, RunningFacts
    <3>6. Again(l).pc \notin {"idle", "grant"} /\ (k.hurt => Again(l).hurt)
      BY <3>2
    <3> QED
      BY <2>3, <3>2, <3>4, <3>5, <3>6, Zenon DEF Outcome, Tokenless
  <2>5. CASE ~(k.attempt <= MaxRetries)
    <3>1. Again(l) = Raise(l)
      BY <2>2, <2>5 DEF Again
    <3>2. Raise(l) = [Idle EXCEPT !.pc = "failed", !.performed = p,
                          !.lost = q, !.hurt = k.hurt, !.alone = k.alone]
      BY <2>2 DEF Raise, End
    <3>3. Counted(Raise(l))
      BY <2>1, <3>2 DEF Counted, Running, Over, Idle
    <3>4. /\ Again(l).pc = "failed" /\ Again(l).performed = p
          /\ Again(l).hurt = k.hurt /\ Again(l).alone = k.alone
          /\ Again(l).body = NoToken /\ Again(l).answer.refresh = NoToken
      BY <3>1, <3>2 DEF Idle
    <3>5. \/ Again(l).performed = k.performed /\ Again(l).pc # "ok"
          \/ Again(l).performed = k.performed + 1 /\ k.performed <= MaxRetries
      BY <2>1, <3>4, RunningFacts
    <3>6. Again(l).pc \notin {"idle", "grant"} /\ (k.hurt => Again(l).hurt)
      BY <3>4
    <3> QED
      BY <2>3, <3>1, <3>3, <3>4, <3>5, <3>6, Zenon DEF Outcome, Tokenless
  <2> QED
    BY <2>4, <2>5
<1>2. k = With(k.performed, k.lost)
  BY DEF CallState
<1>3. \/ CountLost(Count(k)) = With(k.performed, k.lost)
      \/ Len(k.todo) = 1 /\ CountLost(Count(k)) = With(k.performed + 1, k.lost + 1)
  BY DEF CountLost, Count, CallState
<1>4. k.attempt <= MaxRetries => Again(k) = [k EXCEPT !.pc = "resolve", !.attempt = k.attempt + 1,
                                                      !.bearer = NoToken]
  BY DEF Again
<1> HIDE DEF With
<1>5. Outcome(k, Again(k)) /\ Tokenless(Again(k)) /\ Again(k).hurt = k.hurt
  <2>1. /\ Outcome(k, Again(With(k.performed, k.lost)))
        /\ Tokenless(Again(With(k.performed, k.lost)))
        /\ Again(With(k.performed, k.lost)).hurt = k.hurt
    BY <1>1
  <2> QED
    BY <1>2, <2>1
<1>6. Outcome(k, Again(CountLost(Count(k)))) /\ Tokenless(Again(CountLost(Count(k))))
  <2>1. /\ Outcome(k, Again(With(k.performed, k.lost)))
        /\ Tokenless(Again(With(k.performed, k.lost)))
    BY <1>1
  <2>2. Len(k.todo) = 1 => /\ Outcome(k, Again(With(k.performed + 1, k.lost + 1)))
                           /\ Tokenless(Again(With(k.performed + 1, k.lost + 1)))
    BY <1>1
  <2> QED
    BY <1>3, <2>1, <2>2
<1> QED
  BY <1>4, <1>5, <1>6
\* A request that got its answer.
LEMMA OnwardOutcome ==
    ASSUME NEW k \in CallState, Counted(k), Running(k),
           k.body = NoToken, k.answer.refresh = NoToken
    PROVE  LET l == Onward(Count(k))
           IN  /\ Outcome(k, l) /\ Tokenless(l) /\ l.hurt = k.hurt /\ l.pc \in {"ok", "resolve"}
               /\ l.pc = "resolve" => l.attempt = 1
<1> DEFINE l == Onward(Count(k))
<1>1. CASE Len(k.todo) = 1
  <2>1. Count(k) = [k EXCEPT !.performed = @ + 1]
    BY <1>1 DEF Count
  <2>2. /\ Count(k) \in CallState /\ Count(k).todo = k.todo
        /\ Count(k).performed = k.performed + 1 /\ Count(k).lost = k.lost
        /\ Count(k).hurt = k.hurt /\ Count(k).alone = k.alone
    BY <2>1, CallTypes DEF CallState
  <2>3. l = End(Count(k), "ok")
    BY <1>1, <2>2 DEF Onward
  <2>4. l = [Idle EXCEPT !.pc = "ok", !.performed = k.performed + 1,
                         !.lost = k.lost, !.hurt = k.hurt, !.alone = k.alone]
    BY <2>2, <2>3 DEF End
  <2>5. l \in CallState
    <3>1. "ok" \in Threads
      BY DEF Threads
    <3> QED
      BY <2>2, <2>3, <3>1, CallTypes
  <2> HIDE DEF l
  <2>6. Counted(l)
    BY <2>4, RunningFacts DEF Counted, Running, Over, Idle
  <2>7. Outcome(k, l) /\ Tokenless(l) /\ l.hurt = k.hurt /\ l.pc = "ok"
    BY <2>4, <2>5, <2>6, RunningFacts DEF Outcome, Tokenless, Idle, NoToken
  <2> QED
    BY <2>7 DEF l
<1>2. CASE Len(k.todo) # 1
  <2>1. Count(k) = k
    <3>1. Count(k) = [k EXCEPT !.performed = k.performed]
      BY <1>2 DEF Count
    <3> QED
      BY <3>1 DEF CallState
  <2>2. l = [k EXCEPT !.pc = "resolve", !.todo = Tail(@), !.attempt = 1, !.bearer = NoToken]
    BY <1>2, <2>1 DEF Onward
  <2>3. l \in CallState
    BY <2>1, RunningFacts, CallTypes
  <2>4. Tail(k.todo) # <<>>
    BY <1>2, RunningFacts, TodoTail
  <2>5. k.performed = 0
    BY <1>2, RunningFacts
  <2> HIDE DEF l
  <2>6. /\ l.pc = "resolve" /\ l.todo = Tail(k.todo) /\ l.attempt = 1
        /\ l.performed = k.performed /\ l.lost = k.lost /\ l.hurt = k.hurt
        /\ l.alone = k.alone /\ l.body = NoToken /\ l.answer.refresh = NoToken
    BY <2>2 DEF CallState
  <2>7. Counted(l)
    BY <2>4, <2>5, <2>6, RunningFacts DEF Counted
  <2>8. Outcome(k, l) /\ Tokenless(l)
    BY <2>3, <2>6, <2>7 DEF Outcome, Tokenless
  <2> QED
    BY <2>6, <2>8 DEF l
<1> QED
  BY <1>1, <1>2

\* A step that leaves the counters of the call alone.
LEMMA GoOutcome ==
    ASSUME NEW k \in CallState, Counted(k), Running(k), NEW l \in CallState, Running(l),
           l.todo = k.todo, l.attempt = k.attempt, l.performed = k.performed,
           l.lost = k.lost, l.hurt = k.hurt, l.alone = k.alone
    PROVE  Outcome(k, l)
<1>1. Counted(l)
  BY RunningFacts DEF Counted, Running
<1> QED
  BY <1>1 DEF Outcome, Running, Over

LEMMA RefusalOutcome ==
    ASSUME NEW k \in CallState, Counted(k), Running(k),
           k.body = NoToken, k.answer.refresh = NoToken
    PROVE  LET l == AfterRefusal(k)
           IN  /\ Outcome(k, l) /\ Tokenless(l) /\ l.hurt = k.hurt
               /\ credentials => l = [k EXCEPT !.pc = "clear"]
<1> DEFINE l == [k EXCEPT !.pc = "clear"]
<1>1. /\ l \in CallState /\ l.pc = "clear" /\ l.todo = k.todo /\ l.attempt = k.attempt
      /\ l.performed = k.performed /\ l.lost = k.lost /\ l.hurt = k.hurt
      /\ l.alone = k.alone /\ l.body = NoToken /\ l.answer.refresh = NoToken
  BY DEF CallState, Threads
<1> HIDE DEF l
<1>2. Running(l)
  BY <1>1 DEF Running, Over
<1>3. Outcome(k, l) /\ Tokenless(l)
  BY <1>1, <1>2, GoOutcome DEF Tokenless
<1>4. CASE credentials
  BY <1>1, <1>3, <1>4 DEF AfterRefusal, l
<1>5. CASE ~credentials
  BY <1>5, RaiseOutcome DEF AfterRefusal
<1> QED
  BY <1>4, <1>5
-----------------------------------------------------------------------------
(* Every step preserves the invariant. *)

LEMMA CallFacts ==
    ASSUME Inv, NEW c \in Calls
    PROVE  /\ call[c] \in CallState /\ Counted(call[c]) /\ Holds(call[c])
           /\ call[c].body \in Nat /\ call[c].answer \in Tokens /\ call[c].bearer \in Nat
BY DEF Inv, Typed, Rotation, CallState

LEMMA FaultType ==
    ASSUME Inv, Fault
    PROVE  faults' \in 0..MaxFaults
BY SpotifyAssumption DEF SpotifyAssumption, Inv, Typed, Fault

\* A step that neither asks for a token nor stores a refresh token.
LEMMA Moved ==
    ASSUME Inv, NEW c \in Calls, NEW l, Becomes(c, l), Outcome(call[c], l),
           call[c].pc # "keep",
           cached' \in Nat, expiry' \in {"past", "ahead", "never"},
           faults' \in 0..MaxFaults, expiries' \in 0..MaxExpiries,
           refresh' = refresh, credentials' = credentials, spotify' = spotify,
           l.answer.refresh = NoToken,
           l.body \in {NoToken, refresh, call[c].body},
           l.body # NoToken => l.pc = "grant",
           l.pc = "grant" /\ refresh # NoToken => l.body # NoToken
    PROVE  Inv'
<1>1. call \in [Calls -> CallState] /\ l \in CallState /\ Counted(l)
  BY DEF Inv, Typed, Outcome
<1>2. call' \in [Calls -> CallState] /\ call'[c] = l
  BY <1>1 DEF Becomes
<1>3. \A d \in Calls : d # c => call'[d] = call[d]
  BY <1>1 DEF Becomes
<1>4. Typed'
  BY <1>2 DEF Inv, Typed
<1>5. ASSUME NEW d \in Calls PROVE Counted(call'[d])
  BY <1>1, <1>2, <1>3 DEF Inv
<1>6. Rotation'
  <2>1. ASSUME NEW d \in Calls PROVE Holds(call'[d])
    <3>1. CASE d = c
      BY <1>2, <3>1 DEF Holds
    <3>2. CASE d # c
      BY <1>3, <3>2 DEF Inv, Rotation
    <3> QED
      BY <3>1, <3>2
  <2>2. Unrefreshed'
    BY <1>2, <1>3 DEF Inv, Rotation, Unrefreshed
  <2>3. Refreshed'
    BY <1>2, <1>3 DEF Inv, Rotation, Refreshed
  <2>4. ASSUME NEW d \in Calls PROVE Told(d)'
    <3>1. CASE call'[d].answer.refresh = NoToken
      BY <3>1 DEF Told
    <3>2. CASE call'[d].answer.refresh # NoToken
      <4>1. d # c /\ call'[d] = call[d] /\ Told(d)
        BY <1>2, <1>3, <3>2 DEF Inv, Rotation
      <4>2. /\ call[d].answer.refresh = spotify.accepted /\ refresh # spotify.accepted
            /\ \A e \in Calls : /\ call[e].body # spotify.accepted
                                /\ e # d => call[e].answer.refresh = NoToken
        BY <3>2, <4>1 DEF Told
      <4>3. spotify.accepted # NoToken
        BY DEF Inv, Typed, SpotifyState, NoToken
      <4>4. l.body # spotify.accepted
        BY <4>2, <4>3
      <4> QED
        BY <1>2, <1>3, <4>1, <4>2, <4>4 DEF Told
    <3> QED
      BY <3>1, <3>2
  <2>5. KeepsRotatedToken'
    BY <1>2, <1>3 DEF Inv, Rotation, KeepsRotatedToken
  <2> QED
    BY <2>1, <2>2, <2>3, <2>4, <2>5 DEF Rotation
<1> QED
  BY <1>4, <1>5, <1>6 DEF Inv

\* The request of a call with its bearer, and what becomes of it.
LEMMA SentInv ==
    ASSUME Inv, NEW c \in Calls, NEW l, Becomes(c, l), call[c].pc \in {"send", "clear_expiry"},
           Outcome(call[c], l), Tokenless(l),
           cached' \in Nat, expiry' \in {"past", "ahead", "never"},
           faults' \in 0..MaxFaults, UNCHANGED <<refresh, credentials, spotify, expiries>>
    PROVE  Inv'
<1>1. expiries' \in 0..MaxExpiries
  BY DEF Inv, Typed
<1> QED
  BY <1>1, Moved DEF Tokenless

LEMMA SendingFacts ==
    ASSUME Inv, NEW c \in Calls, call[c].pc \in {"send", "clear_expiry"}
    PROVE  /\ call[c] \in CallState /\ Counted(call[c]) /\ Running(call[c])
           /\ call[c].body = NoToken /\ call[c].answer.refresh = NoToken
           /\ cached \in Nat /\ expiry \in {"past", "ahead", "never"}
           /\ faults \in 0..MaxFaults
BY CallFacts DEF Inv, Typed, Holds, Running, Over

\* Every outcome of a request, with its history.
LEMMA RequestInv ==
    ASSUME Inv, NEW c \in Calls,
           SendEmpty(c) \/ Carried(c) \/ Unusable(c) \/ Refused(c) \/ Forbidden(c)
             \/ Broken(c) \/ Lost(c)
    PROVE  Inv'
<1> DEFINE k == call[c]
<1>1. /\ k.pc = "send" /\ UNCHANGED <<client, spotify, expiries>>
      /\ Fault \/ UNCHANGED faults
  BY DEF SendEmpty, Carried, Unusable, Refused, Forbidden, Broken, Lost, Sending
<1>2. /\ cached' \in Nat /\ expiry' \in {"past", "ahead", "never"} /\ faults' \in 0..MaxFaults
      /\ UNCHANGED <<refresh, credentials, spotify, expiries>>
  BY <1>1, SendingFacts, FaultType DEF client
<1>3. ASSUME NEW l, Becomes(c, l), Outcome(k, l), Tokenless(l)
      PROVE  Inv'
  BY <1>1, <1>2, <1>3, SentInv
<1>4. /\ k \in CallState /\ Counted(k) /\ Running(k)
      /\ k.body = NoToken /\ k.answer.refresh = NoToken
  BY <1>1, SendingFacts
<1> HIDE DEF k
<1>5. \A l : Outcome(k, l) /\ Tokenless(l) => Outcome(k, Hurt(l)) /\ Tokenless(Hurt(l))
  BY <1>4, HurtOutcome
<1>6. CASE SendEmpty(c)
  BY <1>3, <1>4, <1>6, AgainOutcome DEF SendEmpty, k
<1>7. CASE Carried(c)
  BY <1>3, <1>4, <1>7, OnwardOutcome DEF Carried, k
<1>8. CASE Unusable(c)
  BY <1>3, <1>4, <1>5, <1>8, RaiseOutcome DEF Unusable, k
<1>9. CASE Refused(c)
  BY <1>3, <1>4, <1>9, RefusalOutcome DEF Refused, k
<1>10. CASE Forbidden(c)
  BY <1>3, <1>4, <1>5, <1>10, RefusalOutcome DEF Forbidden, k
<1>11. CASE Broken(c)
  BY <1>3, <1>4, <1>5, <1>11, RaiseOutcome DEF Broken, AfterBroken, k
<1>12. CASE Lost(c)
  BY <1>3, <1>4, <1>5, <1>12, AgainOutcome DEF Lost, k
<1> QED
  BY <1>6, <1>7, <1>8, <1>9, <1>10, <1>11, <1>12
\* What Spotify does at a grant that it honours.
LEMMA GrantedFacts ==
    ASSUME Inv, NEW c \in Calls, call[c].pc = "grant", Honoured(call[c]), NEW u \in BOOLEAN
    PROVE  LET s == Granted(call[c].body, u)
               b == call[c].body
           IN  /\ s \in SpotifyState /\ s.apponly \subseteq s.live
               /\ Unheld(Held) \in s.live
               /\ s.accepted = IF Rotates(b) THEN Unheld(HeldRefresh) ELSE spotify.accepted
               /\ s.unheard = (spotify.unheard \/ (Rotates(b) /\ u))
               /\ refresh # NoToken => s.apponly = {}
               /\ Rotates(b) => \A d \in Calls : call[d].answer.refresh = NoToken
<1> DEFINE b == call[c].body
           T == {t \in {Unheld(Held)} : b = NoToken}
<1>1. /\ spotify \in SpotifyState /\ spotify.apponly \subseteq spotify.live
      /\ spotify.live \subseteq Nat /\ spotify.accepted \in Nat \ {0}
      /\ spotify.rotates \in BOOLEAN /\ spotify.unheard \in BOOLEAN
  BY DEF Inv, Typed, SpotifyState
<1>2. Unheld(Held) \in Nat /\ Unheld(HeldRefresh) \in Nat \ {0}
  BY Issued
<1>3. Granted(b, u) = [live     |-> (spotify.live \intersect Held) \union {Unheld(Held)},
                       apponly  |-> (spotify.apponly \intersect Held) \union T,
                       accepted |-> IF Rotates(b) THEN Unheld(HeldRefresh)
                                    ELSE spotify.accepted,
                       rotates  |-> spotify.rotates,
                       unheard  |-> spotify.unheard \/ (Rotates(b) /\ u)]
  BY DEF Granted
<1>4. (spotify.unheard \/ (Rotates(b) /\ u)) \in BOOLEAN
  OBVIOUS
<1>5. T \subseteq {Unheld(Held)}
  OBVIOUS
<1>6. refresh # NoToken => (spotify.apponly \intersect Held) \union T = {}
  BY DEF Inv, Rotation, Refreshed
<1>7. ASSUME Rotates(b), NEW d \in Calls PROVE call[d].answer.refresh = NoToken
  <2>1. b = spotify.accepted
    BY <1>7 DEF Rotates, Honoured
  <2>2. Told(d)
    BY DEF Inv, Rotation
  <2> QED
    BY <2>1, <2>2 DEF Told
<1> HIDE DEF b, T
<1>8. Granted(b, u) \in SpotifyState
  <2>1. ((spotify.live \intersect Held) \union {Unheld(Held)}) \in SUBSET Nat
    BY <1>1, <1>2
  <2>2. ((spotify.apponly \intersect Held) \union T) \in SUBSET Nat
    BY <1>1, <1>2, <1>5
  <2>3. (IF Rotates(b) THEN Unheld(HeldRefresh) ELSE spotify.accepted) \in Nat \ {0}
    BY <1>1, <1>2
  <2> QED
    BY <1>1, <1>3, <1>4, <2>1, <2>2, <2>3 DEF SpotifyState
<1>9. Granted(b, u).apponly \subseteq Granted(b, u).live
  BY <1>1, <1>3, <1>5
<1>10. /\ Unheld(Held) \in Granted(b, u).live
       /\ Granted(b, u).accepted = IF Rotates(b) THEN Unheld(HeldRefresh) ELSE spotify.accepted
       /\ Granted(b, u).unheard = (spotify.unheard \/ (Rotates(b) /\ u))
       /\ refresh # NoToken => Granted(b, u).apponly = {}
  BY <1>3, <1>6
<1> QED
  BY <1>7, <1>8, <1>9, <1>10 DEF b

\* A grant, whether its answer arrives (and then it is kept) or is lost.
LEMMA GrantedInv ==
    ASSUME Inv, NEW c \in Calls, call[c].pc = "grant", Honoured(call[c]), NEW u \in BOOLEAN,
           spotify' = Granted(call[c].body, u),
           NEW l, Becomes(c, l), Outcome(call[c], l),
           UNCHANGED <<client, expiries>>, faults' \in 0..MaxFaults,
           \/ /\ ~u /\ l.pc = "keep" /\ l.body = NoToken
              /\ l.answer.refresh = IF Rotates(call[c].body) THEN spotify'.accepted ELSE NoToken
           \/ /\ u /\ l.answer.refresh = NoToken
              /\ l.pc # "grant" => l.body = NoToken
              /\ l.pc = "grant" => l.body = call[c].body
    PROVE  Inv'
<1> DEFINE b == call[c].body
<1>0. /\ UNCHANGED <<cached, expiry, refresh, credentials, expiries>>
      /\ l \in CallState /\ Counted(l)
  BY DEF client, Outcome
<1>1. /\ spotify' \in SpotifyState /\ spotify'.apponly \subseteq spotify'.live
      /\ spotify'.accepted = IF Rotates(b) THEN Unheld(HeldRefresh) ELSE spotify.accepted
      /\ spotify'.unheard = (spotify.unheard \/ (Rotates(b) /\ u))
      /\ refresh # NoToken => spotify'.apponly = {}
      /\ Rotates(b) => \A d \in Calls : call[d].answer.refresh = NoToken
  BY GrantedFacts
<1>2. /\ call' \in [Calls -> CallState] /\ call'[c] = l
      /\ \A d \in Calls : d # c => call'[d] = call[d]
  BY <1>0 DEF Becomes, Inv, Typed
<1>3. Typed'
  BY <1>0, <1>1, <1>2 DEF Inv, Typed
<1>4. \A d \in Calls : Counted(call'[d])
  BY <1>0, <1>2 DEF Inv
<1>5. b # NoToken /\ refresh = NoToken => FALSE
  BY DEF Inv, Rotation, Unrefreshed
<1>6. \A d \in Calls : Holds(call[d])
  BY DEF Inv, Rotation
<1>7. /\ spotify.accepted # NoToken /\ spotify'.accepted # NoToken
      /\ Rotates(b) => /\ spotify'.accepted # refresh
                       /\ \A d \in Calls : spotify'.accepted # call[d].body
  BY <1>1, Issued DEF Inv, Typed, SpotifyState, NoToken
<1>8. Rotates(b) => b # NoToken
  BY DEF Rotates
<1>9. call[c].answer.refresh = NoToken
  BY <1>6 DEF Holds
<1> HIDE DEF b
<1>10. l.body \in {NoToken, b}
  BY DEF b
<1>11. ~Rotates(b) => l.answer.refresh = NoToken
  BY DEF b
<1>12. Rotation'
  <2>1. \A d \in Calls : Holds(call'[d])
    <3>1. Holds(l)
      BY DEF Holds
    <3> QED
      BY <1>2, <1>6, <3>1
  <2>2. Unrefreshed'
    BY <1>0, <1>2, <1>5, <1>8, <1>10, <1>11 DEF Inv, Rotation, Unrefreshed
  <2>3. Refreshed'
    <3>1. refresh # NoToken /\ l.pc = "grant" => l.body # NoToken
      BY DEF Inv, Rotation, Refreshed
    <3> QED
      BY <1>0, <1>1, <1>2, <3>1 DEF Inv, Rotation, Refreshed
  <2>4. ASSUME NEW d \in Calls PROVE Told(d)'
    <3>1. CASE Rotates(b)
      <4>1. l.answer.refresh \in {NoToken, spotify'.accepted}
        BY <1>8 DEF b
      <4>2. \A e \in Calls : call'[e].body # spotify'.accepted
        BY <1>2, <1>7, <1>10, <3>1 DEF b
      <4>3. \A e \in Calls : e # c => call'[e].answer.refresh = NoToken
        BY <1>1, <1>2, <3>1
      <4> QED
        BY <1>0, <1>2, <1>7, <3>1, <4>1, <4>2, <4>3 DEF Told
    <3>2. CASE ~Rotates(b)
      <4>1. spotify'.accepted = spotify.accepted /\ l.answer.refresh = NoToken
        BY <1>1, <1>11, <3>2
      <4>2. CASE call'[d].answer.refresh = NoToken
        BY <4>2 DEF Told
      <4>3. CASE call'[d].answer.refresh # NoToken
        <5>1. d # c /\ call'[d] = call[d] /\ Told(d)
          BY <1>2, <4>1, <4>3 DEF Inv, Rotation
        <5>2. /\ call[d].answer.refresh = spotify.accepted /\ refresh # spotify.accepted
              /\ \A e \in Calls : /\ call[e].body # spotify.accepted
                                  /\ e # d => call[e].answer.refresh = NoToken
          BY <4>3, <5>1 DEF Told
        <5>3. l.body # spotify.accepted
          BY <1>7, <1>10, <5>2 DEF b
        <5> QED
          BY <1>0, <1>2, <4>1, <5>1, <5>2, <5>3 DEF Told
      <4> QED
        BY <4>2, <4>3
    <3> QED
      BY <3>1, <3>2
  <2>5. KeepsRotatedToken'
    <3>1. CASE Rotates(b)
      <4>1. spotify'.unheard \/ (l.pc = "keep" /\ l.answer.refresh = spotify'.accepted)
        BY <1>1, <3>1 DEF b
      <4> QED
        BY <1>2, <4>1 DEF KeepsRotatedToken
    <3>2. CASE ~Rotates(b)
      <4>1. spotify'.accepted = spotify.accepted /\ (spotify'.unheard <=> spotify.unheard)
        BY <1>1, <3>2
      <4> QED
        BY <1>0, <1>2, <4>1 DEF Inv, Rotation, KeepsRotatedToken
    <3> QED
      BY <3>1, <3>2
  <2> QED
    BY <2>1, <2>2, <2>3, <2>4, <2>5 DEF Rotation
<1> QED
  BY <1>3, <1>4, <1>12 DEF Inv
\* The two steps of a grant.
LEMMA GrantStepInv ==
    ASSUME Inv, NEW c \in Calls, Grant(c)
    PROVE  Inv'
<1> DEFINE k == call[c]
           l == [k EXCEPT !.pc = "keep", !.body = NoToken,
                   !.answer = [token   |-> Unheld(Held),
                               refresh |-> IF Rotates(k.body) THEN spotify'.accepted
                                           ELSE NoToken]]
<1>1. /\ k.pc = "grant" /\ Honoured(k) /\ spotify' = Granted(k.body, FALSE)
      /\ Becomes(c, l) /\ UNCHANGED <<client, faults, expiries>>
  BY DEF Grant
<1>2. k \in CallState /\ Counted(k) /\ Running(k)
  BY <1>1, CallFacts DEF Running, Over
<1>3. Unheld(Held) \in Nat /\ spotify'.accepted \in Nat
  BY <1>1, GrantedFacts, Issued DEF SpotifyState
<1>4. /\ l \in CallState /\ l.pc = "keep" /\ l.body = NoToken
      /\ l.answer.refresh = IF Rotates(k.body) THEN spotify'.accepted ELSE NoToken
      /\ l.todo = k.todo /\ l.attempt = k.attempt /\ l.performed = k.performed
      /\ l.lost = k.lost /\ l.hurt = k.hurt /\ l.alone = k.alone
  <2>1. [token |-> Unheld(Held), refresh |-> IF Rotates(k.body) THEN spotify'.accepted
                                             ELSE NoToken] \in Tokens
    BY <1>3 DEF Tokens, NoToken
  <2>2. "keep" \in Threads /\ NoToken \in Nat
    BY DEF Threads, NoToken
  <2> QED
    BY <1>2, <2>1, <2>2 DEF CallState
<1> HIDE DEF l
<1>5. Running(l)
  BY <1>4 DEF Running, Over
<1>6. Outcome(k, l)
  BY <1>2, <1>4, <1>5, GoOutcome
<1>7. faults' \in 0..MaxFaults
  BY <1>1 DEF Inv, Typed
<1> QED
  BY <1>1, <1>4, <1>6, <1>7, GrantedInv

LEMMA GrantLostInv ==
    ASSUME Inv, NEW c \in Calls, GrantLost(c)
    PROVE  Inv'
<1> DEFINE k == call[c]
<1>1. k.pc = "grant" /\ UNCHANGED <<client, expiries>> /\ faults' \in 0..MaxFaults
  BY FaultType DEF GrantLost
<1>2. k \in CallState /\ Counted(k) /\ Running(k)
  BY <1>1, CallFacts DEF Running, Over
<1>3. PICK l \in {AgainGrant(k), Raise(k)} : Becomes(c, Hurt(l))
  BY DEF GrantLost
<1>4. /\ l \in CallState /\ Outcome(k, Hurt(l)) /\ l.answer.refresh = NoToken
      /\ (l.pc = "grant" /\ l.body = k.body) \/ (l.pc = "failed" /\ l.body = NoToken)
  <2>1. k.answer.refresh = NoToken
    BY <1>1, CallFacts DEF Holds
  <2>2. CASE l = Raise(k)
    BY <1>2, <2>2, RaiseOutcome, HurtOutcome DEF Tokenless, Outcome
  <2>3. CASE l = [k EXCEPT !.grant = @ + 1] /\ k.grant <= MaxRetries
    <3>1. l \in CallState
      <4>1. k.grant + 1 \in 0..MaxRetries + 1
        BY <1>2, <2>3, SpotifyAssumption DEF SpotifyAssumption, CallState
      <4> QED
        BY <1>2, <2>3, <4>1 DEF CallState
    <3>2. /\ l.pc = "grant" /\ l.body = k.body /\ l.answer = k.answer
          /\ l.todo = k.todo /\ l.attempt = k.attempt /\ l.performed = k.performed
          /\ l.lost = k.lost /\ l.hurt = k.hurt /\ l.alone = k.alone
      BY <1>1, <1>2, <2>3 DEF CallState
    <3>3. Counted(l)
      BY <1>2, <3>2 DEF Counted, Running, Over
    <3>4. Hurt(l) = [l EXCEPT !.hurt = TRUE] /\ Hurt(l) \in CallState
      BY <3>1, CallTypes DEF Hurt
    <3>5. /\ Hurt(l).pc = "grant" /\ Hurt(l).todo = k.todo /\ Hurt(l).attempt = k.attempt
          /\ Hurt(l).performed = k.performed /\ Hurt(l).lost = k.lost /\ Hurt(l).hurt
          /\ Hurt(l).alone = k.alone
      BY <3>1, <3>2, <3>4 DEF CallState
    <3>6. Counted(Hurt(l))
      BY <3>2, <3>3, <3>5 DEF Counted, Running, Over
    <3>7. Outcome(k, Hurt(l))
      BY <3>4, <3>5, <3>6 DEF Outcome
    <3> QED
      BY <2>1, <3>1, <3>2, <3>7
  <2> QED
    BY <1>2, <1>3, <2>2, <2>3, RaiseOutcome DEF AgainGrant
<1>5. /\ Hurt(l).answer.refresh = NoToken /\ Hurt(l).pc = l.pc /\ Hurt(l).body = l.body
  BY <1>4 DEF Hurt, CallState
<1> HIDE DEF k
<1>6. CASE UNCHANGED spotify
  <2>1. /\ cached' \in Nat /\ expiry' \in {"past", "ahead", "never"}
        /\ expiries' \in 0..MaxExpiries
        /\ refresh' = refresh /\ credentials' = credentials
    BY <1>1 DEF client, Inv, Typed
  <2>2. refresh # NoToken => k.body # NoToken
    BY <1>1 DEF k, Inv, Rotation, Refreshed
  <2>3. /\ Hurt(l).body \in {NoToken, refresh, k.body}
        /\ Hurt(l).body # NoToken => Hurt(l).pc = "grant"
        /\ Hurt(l).pc = "grant" /\ refresh # NoToken => Hurt(l).body # NoToken
    BY <1>4, <1>5, <2>2
  <2> QED
    BY <1>1, <1>3, <1>4, <1>5, <1>6, <2>1, <2>3, Moved DEF k
<1>7. CASE Honoured(k) /\ spotify' = Granted(k.body, TRUE)
  BY <1>1, <1>3, <1>4, <1>5, <1>7, GrantedInv DEF k
<1> QED
  BY <1>6, <1>7 DEF GrantLost, k

\* The choice of a token; what returns it, keeps it and throws it away.
LEMMA ResolveInv ==
    ASSUME Inv, NEW c \in Calls, Resolve(c)
    PROVE  Inv'
<1> DEFINE k == call[c]
           l == Resolved(k)
<1>1. /\ k.pc = "resolve" /\ Becomes(c, l) /\ UNCHANGED <<client, spotify, faults, expiries>>
  BY DEF Resolve
<1>2. /\ k \in CallState /\ Counted(k) /\ Running(k)
      /\ k.body = NoToken /\ k.answer.refresh = NoToken
  BY <1>1, CallFacts DEF Running, Over, Holds
<1>3. /\ Outcome(k, l) /\ l.answer.refresh = NoToken
      /\ l.body \in {NoToken, refresh} /\ (l.body # NoToken => l.pc = "grant")
      /\ l.pc = "grant" /\ refresh # NoToken => l.body # NoToken
  <2>1. CASE cached # NoToken /\ expiry # "past"
    <3>1. l = [k EXCEPT !.pc = "return"]
      BY <2>1 DEF Resolved
    <3> HIDE DEF l
    <3>2. /\ l \in CallState /\ Running(l) /\ l.pc = "return"
          /\ l.todo = k.todo /\ l.attempt = k.attempt /\ l.performed = k.performed
          /\ l.lost = k.lost /\ l.hurt = k.hurt /\ l.alone = k.alone
          /\ l.body = NoToken /\ l.answer.refresh = NoToken
      BY <1>2, <3>1 DEF CallState, Running, Over, Threads
    <3> QED
      BY <1>2, <3>2, GoOutcome
  <2>2. CASE ~(cached # NoToken /\ expiry # "past") /\ credentials
    <3>1. l = [k EXCEPT !.pc = "grant", !.grant = 1, !.body = refresh]
      BY <2>2 DEF Resolved
    <3> HIDE DEF l
    <3>2. refresh \in Nat /\ 1 \in 0..MaxRetries + 1
      BY SpotifyAssumption DEF Inv, Typed, SpotifyAssumption
    <3>3. /\ l \in CallState /\ Running(l) /\ l.pc = "grant"
          /\ l.todo = k.todo /\ l.attempt = k.attempt /\ l.performed = k.performed
          /\ l.lost = k.lost /\ l.hurt = k.hurt /\ l.alone = k.alone
          /\ l.body = refresh /\ l.answer.refresh = NoToken
      BY <1>2, <3>1, <3>2 DEF CallState, Running, Over, Threads
    <3> QED
      BY <1>2, <3>3, GoOutcome
  <2>3. CASE ~(cached # NoToken /\ expiry # "past") /\ ~credentials
    <3>1. l = Raise(k)
      BY <2>3 DEF Resolved
    <3> QED
      BY <1>2, <3>1, RaiseOutcome DEF Tokenless
  <2> QED
    BY <2>1, <2>2, <2>3
<1> HIDE DEF l
<1>4. /\ cached' \in Nat /\ expiry' \in {"past", "ahead", "never"}
      /\ faults' \in 0..MaxFaults /\ expiries' \in 0..MaxExpiries
      /\ refresh' = refresh /\ credentials' = credentials
  BY <1>1 DEF client, Inv, Typed
<1> QED
  BY <1>1, <1>3, <1>4, Moved
LEMMA FieldInv ==
    ASSUME Inv, NEW c \in Calls, Return(c) \/ StoreToken(c) \/ ExtendExpiry(c) \/ Clear(c)
    PROVE  Inv'
<1> DEFINE k == call[c]
<1>1. /\ k \in CallState /\ Counted(k) /\ Holds(k) /\ cached \in Nat
      /\ expiry \in {"past", "ahead", "never"} /\ k.answer \in Tokens
      /\ faults \in 0..MaxFaults /\ expiries \in 0..MaxExpiries
  BY CallFacts DEF Inv, Typed
<1>2. ASSUME NEW pc \in {"send", "extend", "return", "clear_expiry"},
             NEW a \in Tokens, a.refresh = NoToken, NEW t \in Nat,
             Becomes(c, [k EXCEPT !.pc = pc, !.answer = a, !.bearer = t]),
             k.pc \in {"return", "store", "extend", "clear"},
             cached' \in Nat, expiry' \in {"past", "ahead", "never"},
             UNCHANGED <<refresh, credentials, spotify, faults, expiries>>
      PROVE  Inv'
  <2> DEFINE l == [k EXCEPT !.pc = pc, !.answer = a, !.bearer = t]
  <2>1. k.body = NoToken /\ Running(k)
    BY <1>1, <1>2 DEF Holds, Running, Over
  <2>2. /\ l \in CallState /\ l.pc = pc /\ l.answer.refresh = NoToken /\ l.body = NoToken
        /\ l.todo = k.todo /\ l.attempt = k.attempt /\ l.performed = k.performed
        /\ l.lost = k.lost /\ l.hurt = k.hurt /\ l.alone = k.alone
    BY <1>1, <1>2, <2>1 DEF CallState, Threads
  <2>3. Becomes(c, l)
    BY <1>2
  <2> HIDE DEF l, k
  <2>4. Running(l) /\ l.pc # "grant"
    BY <1>2, <2>2 DEF Running, Over
  <2>5. Outcome(k, l)
    BY <1>1, <2>1, <2>2, <2>4, GoOutcome
  <2> QED
    BY <1>1, <1>2, <2>2, <2>3, <2>4, <2>5, Moved DEF k
<1>3. k = [k EXCEPT !.pc = k.pc, !.answer = k.answer, !.bearer = k.bearer]
  BY <1>1 DEF CallState
<1>4. k.pc # "keep" => k.answer.refresh = NoToken
  BY <1>1 DEF Holds
<1>5. Idle.answer \in Tokens /\ Idle.answer.refresh = NoToken /\ NoToken \in Nat
  BY DEF Idle, Tokens, NoToken
<1>6. CASE Return(c)
  <2>1. [k EXCEPT !.pc = "send", !.bearer = cached]
          = [k EXCEPT !.pc = "send", !.answer = k.answer, !.bearer = cached]
    BY <1>1 DEF CallState
  <2> QED
    BY <1>1, <1>2, <1>4, <1>6, <2>1 DEF Return, client
<1>7. CASE StoreToken(c)
  <2>1. [k EXCEPT !.pc = "extend", !.answer = Idle.answer]
          = [k EXCEPT !.pc = "extend", !.answer = Idle.answer, !.bearer = k.bearer]
    BY <1>1 DEF CallState
  <2>2. k.answer.token \in Nat /\ k.bearer \in Nat
    BY <1>1 DEF Tokens, CallState
  <2> QED
    BY <1>1, <1>2, <1>5, <1>7, <2>1, <2>2 DEF StoreToken
<1>8. CASE ExtendExpiry(c)
  <2>1. [k EXCEPT !.pc = "return"]
          = [k EXCEPT !.pc = "return", !.answer = k.answer, !.bearer = k.bearer]
    BY <1>1 DEF CallState
  <2>2. k.bearer \in Nat
    BY <1>1 DEF CallState
  <2> QED
    BY <1>1, <1>2, <1>4, <1>8, <2>1, <2>2 DEF ExtendExpiry
<1>9. CASE Clear(c)
  <2>1. [k EXCEPT !.pc = "clear_expiry"]
          = [k EXCEPT !.pc = "clear_expiry", !.answer = k.answer, !.bearer = k.bearer]
    BY <1>1 DEF CallState
  <2>2. k.bearer \in Nat
    BY <1>1 DEF CallState
  <2> QED
    BY <1>1, <1>2, <1>4, <1>5, <1>9, <2>1, <2>2 DEF Clear
<1> QED
  BY <1>6, <1>7, <1>8, <1>9

LEMMA ClearExpiryInv ==
    ASSUME Inv, NEW c \in Calls, ClearExpiry(c)
    PROVE  Inv'
<1>1. /\ call[c].pc = "clear_expiry" /\ expiry' = "past" /\ Becomes(c, Again(call[c]))
      /\ UNCHANGED <<cached, refresh, credentials, spotify, faults, expiries>>
  BY DEF ClearExpiry
<1>2. Outcome(call[c], Again(call[c])) /\ Tokenless(Again(call[c]))
  BY <1>1, SendingFacts, AgainOutcome
<1> QED
  BY <1>1, <1>2, SendingFacts, SentInv

LEMMA GrantRefusedInv ==
    ASSUME Inv, NEW c \in Calls, GrantRefused(c)
    PROVE  Inv'
<1>1. /\ call[c].pc = "grant" /\ Becomes(c, Raise(call[c]))
      /\ UNCHANGED <<cached, expiry, refresh, credentials, spotify, faults, expiries>>
  BY DEF GrantRefused, client
<1>2. call[c] \in CallState /\ Counted(call[c]) /\ Running(call[c])
  BY <1>1, CallFacts DEF Running, Over
<1>3. Outcome(call[c], Raise(call[c])) /\ Tokenless(Raise(call[c]))
  BY <1>2, RaiseOutcome
<1>4. /\ cached' \in Nat /\ expiry' \in {"past", "ahead", "never"}
      /\ faults' \in 0..MaxFaults /\ expiries' \in 0..MaxExpiries
  BY <1>1 DEF Inv, Typed
<1> QED
  BY <1>1, <1>3, <1>4, Moved DEF Tokenless

\* A rotated refresh token is stored: it was the accepted one, and nobody else's.
LEMMA KeepRefreshInv ==
    ASSUME Inv, NEW c \in Calls, KeepRefresh(c)
    PROVE  Inv'
<1> DEFINE k == call[c]
           l == [k EXCEPT !.pc = "store", !.answer.refresh = NoToken]
<1>1. /\ k.pc = "keep" /\ refresh' = KeptRefresh(k) /\ Becomes(c, l)
      /\ UNCHANGED <<cached, expiry, credentials, spotify, faults, expiries>>
  BY DEF KeepRefresh
<1>2. /\ k \in CallState /\ Counted(k) /\ Running(k) /\ k.body = NoToken
      /\ k.answer \in Tokens /\ refresh \in Nat
  BY <1>1, CallFacts DEF Running, Over, Holds, Inv, Typed
<1>3. /\ l \in CallState /\ l.pc = "store" /\ l.body = NoToken /\ l.answer.refresh = NoToken
      /\ l.todo = k.todo /\ l.attempt = k.attempt /\ l.performed = k.performed
      /\ l.lost = k.lost /\ l.hurt = k.hurt /\ l.alone = k.alone
  BY <1>2 DEF CallState, Tokens, Threads, NoToken
<1> HIDE DEF l
<1>4. Counted(l)
  BY <1>2, <1>3 DEF Counted, Running, Over
<1>5. /\ call' \in [Calls -> CallState] /\ call'[c] = l
      /\ \A d \in Calls : d # c => call'[d] = call[d]
  BY <1>1, <1>3 DEF Becomes, Inv, Typed
<1>6. refresh' \in Nat /\ (k.answer.refresh # NoToken => refresh' = k.answer.refresh)
      /\ (k.answer.refresh = NoToken => refresh' = refresh)
  BY <1>1, <1>2 DEF KeptRefresh, Tokens
<1>7. Typed'
  BY <1>1, <1>5, <1>6 DEF Inv, Typed
<1>8. \A d \in Calls : Counted(call'[d])
  BY <1>4, <1>5 DEF Inv
<1>9. k.answer.refresh # NoToken => refresh # NoToken
  BY DEF Inv, Rotation, Unrefreshed
<1>10. Told(c) /\ \A d \in Calls : Holds(call[d])
  BY DEF Inv, Rotation
<1>11. Rotation'
  <2>1. \A d \in Calls : Holds(call'[d])
    <3>1. Holds(l)
      BY <1>3 DEF Holds
    <3> QED
      BY <1>5, <1>10, <3>1
  <2>2. Unrefreshed'
    BY <1>3, <1>5, <1>6, <1>9 DEF Inv, Rotation, Unrefreshed
  <2>3. Refreshed'
    BY <1>1, <1>3, <1>5, <1>6, <1>9 DEF Inv, Rotation, Refreshed
  <2>4. ASSUME NEW d \in Calls PROVE Told(d)'
    <3>1. CASE k.answer.refresh = NoToken
      <4>1. refresh' = refresh
        BY <1>6, <3>1
      <4>2. CASE d = c
        BY <1>3, <1>5, <4>2 DEF Told
      <4>3. CASE d # c
        <5>1. Told(d)
          BY DEF Inv, Rotation
        <5>2. spotify.accepted # NoToken
          BY DEF Inv, Typed, SpotifyState, NoToken
        <5> QED
          BY <1>1, <1>3, <1>5, <4>1, <4>3, <5>1, <5>2 DEF Told
      <4> QED
        BY <4>2, <4>3
    <3>2. CASE k.answer.refresh # NoToken
      <4>1. \A e \in Calls : call'[e].answer.refresh = NoToken
        BY <1>3, <1>5, <1>10, <3>2 DEF Told
      <4> QED
        BY <4>1 DEF Told
    <3> QED
      BY <3>1, <3>2
  <2>5. KeepsRotatedToken'
    <3>1. CASE k.answer.refresh = NoToken
      <4>1. k.answer.refresh # spotify.accepted
        BY <3>1 DEF Inv, Typed, SpotifyState, NoToken
      <4> QED
        BY <1>1, <1>5, <1>6, <3>1, <4>1 DEF Inv, Rotation, KeepsRotatedToken
    <3>2. CASE k.answer.refresh # NoToken
      BY <1>1, <1>6, <1>10, <3>2 DEF Told, KeepsRotatedToken
    <3> QED
      BY <3>1, <3>2
  <2> QED
    BY <2>1, <2>2, <2>3, <2>4, <2>5 DEF Rotation
<1> QED
  BY <1>7, <1>8, <1>11 DEF Inv
\* A step that moves no token.
LEMMA TokensStay ==
    ASSUME Rotation, UNCHANGED <<refresh, credentials>>,
           spotify'.accepted = spotify.accepted, spotify'.unheard = spotify.unheard,
           spotify'.apponly \subseteq spotify.apponly,
           \A d \in Calls : /\ call'[d].body = call[d].body
                            /\ call'[d].answer.refresh = call[d].answer.refresh
                            /\ \/ call'[d].pc = call[d].pc
                               \/ call[d].pc = "idle" /\ call'[d].pc = "resolve"
    PROVE  Rotation'
<1>1. \A d \in Calls : Holds(call'[d])
  BY DEF Rotation, Holds
<1>2. Unrefreshed'
  BY DEF Rotation, Unrefreshed
<1>3. Refreshed'
  BY DEF Rotation, Refreshed
<1>4. ASSUME NEW d \in Calls PROVE Told(d)'
  BY DEF Rotation, Told
<1>5. KeepsRotatedToken'
  <2>1. \A d \in Calls : call[d].pc = "keep" => call'[d].pc = "keep"
    OBVIOUS
  <2> QED
    BY <2>1 DEF Rotation, KeepsRotatedToken
<1> QED
  BY <1>1, <1>2, <1>3, <1>4, <1>5 DEF Rotation

\* The record of a call that begins.
LEMMA Begun ==
    ASSUME NEW c \in Calls, Begin(c)
    PROVE  \E a \in BOOLEAN, todo \in Todo :
             LET l == [Idle EXCEPT !.pc = "resolve", !.attempt = 1, !.todo = todo, !.alone = a]
             IN  /\ l \in CallState /\ todo # <<>>
                 /\ a = (\A d \in Calls \ {c} : ~Running(call[d]))
                 /\ call' = [d \in Calls |->
                      IF d = c THEN l
                      ELSE IF Running(call[d]) THEN [call[d] EXCEPT !.alone = FALSE]
                      ELSE call[d]]
<1> DEFINE company == {d \in Calls \ {c} : Running(call[d])}
           a == company = {}
<1>1. PICK op \in Methods[c] :
        call' = [d \in Calls |->
             IF d = c THEN [Idle EXCEPT !.pc = "resolve", !.attempt = 1,
                              !.todo = Requests(op[1], op[2]), !.alone = a]
             ELSE IF d \in company THEN [call[d] EXCEPT !.alone = FALSE]
             ELSE call[d]]
  BY DEF Begin
<1>2. op[2] \in BOOLEAN
  BY SpotifyAssumption DEF SpotifyAssumption
<1>3. Requests(op[1], op[2]) \in Todo /\ Requests(op[1], op[2]) # <<>>
  BY <1>2, RequestsType
<1>4. a \in BOOLEAN /\ a = (\A d \in Calls \ {c} : ~Running(call[d]))
  OBVIOUS
<1>5. \A d \in Calls : d # c => (d \in company <=> Running(call[d]))
  OBVIOUS
<1> HIDE DEF a, company
<1> DEFINE todo == Requests(op[1], op[2])
           l == [Idle EXCEPT !.pc = "resolve", !.attempt = 1, !.todo = todo, !.alone = a]
<1>6. l \in CallState
  <2>1. Idle \in CallState
    <3>1. <<>> \in Todo /\ 0 \in 0..MaxRetries + 1
      BY TodoLen, SpotifyAssumption DEF SpotifyAssumption
    <3> QED
      BY <3>1 DEF Idle, CallState, Threads, Tokens, NoToken
  <2>2. 1 \in 0..MaxRetries + 1 /\ "resolve" \in Threads
    BY SpotifyAssumption DEF SpotifyAssumption, Threads
  <2> QED
    BY <1>3, <1>4, <2>1, <2>2 DEF CallState
<1>7. call' = [d \in Calls |->
                 IF d = c THEN l
                 ELSE IF Running(call[d]) THEN [call[d] EXCEPT !.alone = FALSE]
                 ELSE call[d]]
  BY <1>1, <1>5
<1> QED
  BY <1>3, <1>4, <1>6, <1>7

LEMMA BeginInv ==
    ASSUME Inv, NEW c \in Calls, Begin(c)
    PROVE  Inv'
<1>1. PICK a \in BOOLEAN, todo \in Todo :
        LET l == [Idle EXCEPT !.pc = "resolve", !.attempt = 1, !.todo = todo, !.alone = a]
        IN  /\ l \in CallState /\ todo # <<>>
            /\ a = (\A d \in Calls \ {c} : ~Running(call[d]))
            /\ call' = [d \in Calls |->
                 IF d = c THEN l
                 ELSE IF Running(call[d]) THEN [call[d] EXCEPT !.alone = FALSE]
                 ELSE call[d]]
  BY Begun
<1> DEFINE l == [Idle EXCEPT !.pc = "resolve", !.attempt = 1, !.todo = todo, !.alone = a]
<1>2. /\ l.pc = "resolve" /\ l.todo # <<>> /\ l.attempt = 1 /\ l.performed = 0
      /\ l.lost = 0 /\ l.body = NoToken /\ l.answer.refresh = NoToken /\ l.answer = Idle.answer
  BY <1>1 DEF Idle
<1>3. l \in CallState /\ call'[c] = l
  BY <1>1
<1>4. \A d \in Calls : d # c => \/ call'[d] = call[d]
                                \/ call'[d] = [call[d] EXCEPT !.alone = FALSE]
  BY <1>1
<1>5. /\ call[c].pc = "idle" /\ UNCHANGED <<cached, expiry, refresh, credentials, spotify,
                                           faults, expiries>>
  BY DEF Begin, client
<1> HIDE DEF l
<1>6. /\ call[c].body = NoToken /\ call[c].answer.refresh = NoToken
      /\ \A d \in Calls : call[d] \in CallState
  BY <1>5, CallFacts DEF Holds
<1>7. ASSUME NEW d \in Calls, d # c
      PROVE  /\ call'[d] \in CallState /\ Counted(call'[d]) /\ call'[d].pc = call[d].pc
             /\ call'[d].body = call[d].body /\ call'[d].answer = call[d].answer
  <2>1. CASE call'[d] = call[d]
    BY <2>1, CallFacts
  <2>2. CASE call'[d] = [call[d] EXCEPT !.alone = FALSE]
    <3>1. /\ call'[d] \in CallState /\ call'[d].pc = call[d].pc
          /\ call'[d].todo = call[d].todo /\ call'[d].attempt = call[d].attempt
          /\ call'[d].performed = call[d].performed /\ call'[d].lost = call[d].lost
          /\ call'[d].body = call[d].body /\ call'[d].answer = call[d].answer
      BY <1>6, <2>2 DEF CallState
    <3>2. Counted(call[d])
      BY CallFacts
    <3> QED
      BY <3>1, <3>2 DEF Counted, Running, Over
  <2> QED
    BY <1>4, <1>7, <2>1, <2>2
<1>8. Counted(l)
  BY <1>2 DEF Counted, Running, Over
<1>9. Typed'
  <2>1. \A d \in Calls : call'[d] \in CallState
    BY <1>3, <1>7
  <2>2. call' \in [Calls -> CallState]
    BY <1>1, <2>1
  <2> QED
    BY <1>5, <2>2 DEF Inv, Typed
<1>10. Rotation'
  <2>1. ASSUME NEW d \in Calls
        PROVE  /\ call'[d].body = call[d].body
               /\ call'[d].answer.refresh = call[d].answer.refresh
               /\ \/ call'[d].pc = call[d].pc
                  \/ call[d].pc = "idle" /\ call'[d].pc = "resolve"
    BY <1>2, <1>3, <1>5, <1>6, <1>7
  <2> QED
    BY <1>5, <2>1, TokensStay DEF Inv
<1> QED
  BY <1>3, <1>7, <1>8, <1>9, <1>10 DEF Inv
LEMMA RevokeInv ==
    ASSUME Inv, Revoke
    PROVE  Inv'
<1>1. PICK t \in spotify.live :
        spotify' = [spotify EXCEPT !.live = @ \ {t}, !.apponly = @ \ {t}]
  BY DEF Revoke
<1>2. /\ call' = [c \in Calls |-> IF Running(call[c]) THEN Hurt(call[c]) ELSE call[c]]
      /\ UNCHANGED <<cached, expiry, refresh, credentials, expiries>>
      /\ faults' \in 0..MaxFaults
  BY FaultType DEF Revoke, client
<1>3. ASSUME NEW d \in Calls
      PROVE  /\ call'[d] \in CallState /\ Counted(call'[d]) /\ call'[d].pc = call[d].pc
             /\ call'[d].body = call[d].body /\ call'[d].answer = call[d].answer
  <2>1. call[d] \in CallState /\ Counted(call[d])
    BY CallFacts
  <2>2. CASE call'[d] = call[d]
    BY <2>1, <2>2
  <2>3. CASE call'[d] = Hurt(call[d])
    <3>1. /\ call'[d] \in CallState /\ call'[d].pc = call[d].pc
          /\ call'[d].todo = call[d].todo /\ call'[d].attempt = call[d].attempt
          /\ call'[d].performed = call[d].performed /\ call'[d].lost = call[d].lost
          /\ call'[d].body = call[d].body /\ call'[d].answer = call[d].answer
      BY <2>1, <2>3 DEF Hurt, CallState
    <3> QED
      BY <2>1, <3>1 DEF Counted, Running, Over
  <2> QED
    BY <1>2, <2>2, <2>3
<1>4. /\ spotify' \in SpotifyState /\ spotify'.apponly \subseteq spotify'.live
      /\ spotify'.accepted = spotify.accepted /\ spotify'.unheard = spotify.unheard
      /\ spotify'.apponly \subseteq spotify.apponly
  BY <1>1 DEF Inv, Typed, SpotifyState
<1>5. Typed'
  <2>1. call' \in [Calls -> CallState]
    BY <1>2, <1>3
  <2> QED
    BY <1>2, <1>4, <2>1 DEF Inv, Typed
<1>6. Rotation'
  <2>1. \A d \in Calls : /\ call'[d].body = call[d].body
                         /\ call'[d].answer.refresh = call[d].answer.refresh
                         /\ call'[d].pc = call[d].pc
    BY <1>3
  <2> QED
    BY <1>2, <1>4, <2>1, TokensStay DEF Inv
<1> QED
  BY <1>3, <1>5, <1>6 DEF Inv

LEMMA ExpireInv ==
    ASSUME Inv, Expire
    PROVE  Inv'
<1>1. /\ UNCHANGED <<cached, refresh, credentials, spotify, call, faults>> /\ expiry' = "past"
      /\ expiries' \in 0..MaxExpiries
  BY SpotifyAssumption DEF SpotifyAssumption, Expire, Inv, Typed
<1>2. Typed'
  BY <1>1 DEF Inv, Typed
<1>3. Rotation'
  BY <1>1, TokensStay DEF Inv
<1> QED
  BY <1>1, <1>2, <1>3 DEF Inv

LEMMA StutterInv ==
    ASSUME Inv, UNCHANGED vars
    PROVE  Inv'
<1>1. UNCHANGED <<cached, expiry, refresh, credentials, spotify, call, faults, expiries>>
  BY DEF vars, client
<1>2. Typed'
  BY <1>1 DEF Inv, Typed
<1>3. Rotation'
  BY <1>1, TokensStay DEF Inv
<1> QED
  BY <1>1, <1>2, <1>3 DEF Inv

LEMMA InitInv == Init => Inv
<1> SUFFICES ASSUME Init PROVE Inv
  OBVIOUS
<1>1. PICK rotates \in {FALSE, refresh # NoToken} :
        spotify = [live |-> {1}, apponly |-> {}, accepted |-> 1,
                   rotates |-> rotates, unheard |-> FALSE]
  BY DEF Init
<1>2. /\ cached \in {NoToken, 1} /\ refresh \in {NoToken, 1} /\ credentials \in BOOLEAN
      /\ expiry = (IF cached = NoToken THEN "past" ELSE "never")
      /\ call = [c \in Calls |-> Idle] /\ faults = 0 /\ expiries = 0
  BY DEF Init
<1>3. /\ Idle.pc = "idle" /\ Idle.body = NoToken /\ Idle.answer.refresh = NoToken
      /\ Idle.performed = 0 /\ Idle.lost = 0
  BY DEF Idle
<1>4. Idle \in CallState
  <2>1. <<>> \in Todo /\ 0 \in 0..MaxRetries + 1
    BY TodoLen, SpotifyAssumption DEF SpotifyAssumption
  <2> QED
    BY <2>1 DEF Idle, CallState, Threads, Tokens, NoToken
<1>5. Typed
  <2>1. rotates \in BOOLEAN
    OBVIOUS
  <2>2. spotify \in SpotifyState /\ spotify.apponly \subseteq spotify.live
    BY <1>1, <2>1 DEF SpotifyState
  <2>3. faults \in 0..MaxFaults /\ expiries \in 0..MaxExpiries
    BY <1>2, SpotifyAssumption DEF SpotifyAssumption
  <2> QED
    BY <1>2, <1>4, <2>2, <2>3 DEF Typed, NoToken
<1>6. \A c \in Calls : Counted(call[c])
  BY <1>2, <1>3 DEF Counted, Running
<1>7. Rotation
  BY <1>1, <1>2, <1>3 DEF Rotation, Holds, Unrefreshed, Refreshed, Told, KeepsRotatedToken
<1> QED
  BY <1>5, <1>6, <1>7 DEF Inv

LEMMA NextInv == Inv /\ [Next]_vars => Inv'
<1> SUFFICES ASSUME Inv, [Next]_vars PROVE Inv'
  OBVIOUS
<1>1. ASSUME NEW c \in Calls, Begin(c) PROVE Inv'
  BY <1>1, BeginInv
<1>2. ASSUME NEW c \in Calls, Step(c) PROVE Inv'
  BY <1>2, ResolveInv, FieldInv, GrantStepInv, GrantRefusedInv, GrantLostInv,
     KeepRefreshInv, RequestInv, ClearExpiryInv DEF Step
<1>3. CASE Expire
  BY <1>3, ExpireInv
<1>4. CASE Revoke
  BY <1>4, RevokeInv
<1>5. CASE AllOver \/ UNCHANGED vars
  BY <1>5, StutterInv DEF AllOver
<1> QED
  BY <1>1, <1>2, <1>3, <1>4, <1>5 DEF Next
-----------------------------------------------------------------------------
(* Theorems. *)

\* The invariant holds in every state, however the threads interleave.
THEOREM Invariance == Spec => []Inv
BY InitInv, NextInv, PTL DEF Spec

\* Every field and every record of a thread keeps its type; a request is tried
\* at most MaxRetries + 1 times, and so is the token request inside it.
THEOREM TypeCorrect == Spec => []TypeOK
<1>1. Inv => TypeOK
  <2>1. ASSUME Inv, NEW c \in Calls
        PROVE  /\ call[c].pc \in Threads
               /\ call[c].attempt \in 0..MaxRetries + 1
               /\ call[c].grant \in 0..MaxRetries + 1
               /\ call[c].todo \in SeqOf({"search", "playlists", "devices", "player"}, 3)
               /\ call[c].bearer \in Nat
    <3>1. call[c] \in CallState
      BY <2>1, CallFacts
    <3>2. call[c].todo \in Todo
      BY <3>1 DEF CallState
    <3> QED
      BY <3>1, <3>2 DEF CallState, Todo, Requested
  <2>2. ASSUME Inv
        PROVE  spotify.live \subseteq Nat
    BY <2>2 DEF Inv, Typed, SpotifyState
  <2> QED
    BY <2>1, <2>2 DEF Inv, Typed, TypeOK
<1> QED
  BY <1>1, Invariance, PTL

\* Spotify carries a request out once more than the first time only for an
\* execution whose answer was lost.
THEOREM Repeated == Spec => []RepeatedOnlyAfterLostAnswer
<1>1. Inv => RepeatedOnlyAfterLostAnswer
  BY CallFacts DEF Counted, RepeatedOnlyAfterLostAnswer
<1> QED
  BY <1>1, Invariance, PTL

\* The client never loses a rotated refresh token that it was told of.
THEOREM KeepsToken == Spec => []KeepsRotatedToken
<1>1. Inv => KeepsRotatedToken
  BY DEF Inv, Rotation
<1> QED
  BY <1>1, Invariance, PTL
-----------------------------------------------------------------------------
(* A call without company that nothing hurts does not fail. *)

InvAlone == Inv /\ Solo /\ SucceedsAlone

\* Only the call that takes a step has to be looked at.
LEMMA StepAlone ==
    ASSUME InvAlone, NEW c \in Calls, NEW l, Becomes(c, l), Running(call[c]),
           l.alone = call[c].alone, call[c].hurt => l.hurt, CanRefresh' => CanRefresh,
           CanRefresh /\ Undisturbed(call[c]) /\ Alone(c) /\ ~l.hurt =>
               l.pc # "failed" /\ (Running(l) => Alone(c)')
    PROVE  (Solo /\ SucceedsAlone)'
<1>1. /\ call'[c] = l /\ \A d \in Calls : d # c => call'[d] = call[d]
  BY DEF Becomes, InvAlone, Inv, Typed
<1>2. CASE ~CanRefresh'
  BY <1>2 DEF Solo, SucceedsAlone, CanRefresh
<1>3. CASE CanRefresh'
  <2>1. CanRefresh /\ credentials /\ refresh # NoToken /\ ~spotify.unheard
    BY <1>3 DEF CanRefresh
  <2>2. ASSUME NEW d \in Calls, Undisturbed(call'[d]) PROVE Alone(d)'
    <3>1. CASE d = c
      <4>1. Undisturbed(call[c])
        BY <1>1, <2>2, <3>1 DEF Undisturbed
      <4>2. Alone(c)
        BY <2>1, <4>1 DEF InvAlone, Solo
      <4> QED
        BY <1>1, <2>1, <2>2, <3>1, <4>1, <4>2 DEF Undisturbed
    <3>2. CASE d # c
      <4>1. Undisturbed(call[d])
        BY <1>1, <2>2, <3>2
      <4>2. Alone(d)
        BY <2>1, <4>1 DEF InvAlone, Solo
      <4> QED
        BY <3>2, <4>2 DEF Alone
    <3> QED
      BY <3>1, <3>2
  <2>3. ASSUME NEW d \in Calls, call'[d].pc = "failed"
        PROVE  call'[d].hurt \/ ~call'[d].alone
    <3>1. CASE d = c
      <4>1. SUFFICES ASSUME ~l.hurt, l.alone PROVE FALSE
        BY <1>1, <3>1
      <4>2. Undisturbed(call[c])
        BY <1>1, <4>1 DEF Undisturbed
      <4>3. Alone(c)
        BY <2>1, <4>2 DEF InvAlone, Solo
      <4> QED
        BY <1>1, <2>1, <2>3, <3>1, <4>1, <4>2, <4>3
    <3>2. CASE d # c
      BY <1>1, <2>1, <2>3, <3>2 DEF InvAlone, SucceedsAlone
    <3> QED
      BY <3>1, <3>2
  <2> QED
    BY <2>2, <2>3 DEF Solo, SucceedsAlone
<1> QED
  BY <1>2, <1>3

\* What a call without company may rely on.
LEMMA AloneFacts ==
    ASSUME InvAlone, NEW c \in Calls, CanRefresh, Undisturbed(call[c]), Alone(c)
    PROVE  /\ credentials /\ refresh # NoToken /\ ~spotify.unheard
           /\ spotify.apponly = {} /\ spotify.accepted # NoToken
           /\ call[c] \in CallState /\ call[c].attempt \in {1, 2}
           /\ call[c].pc = "keep" =>
                \/ call[c].answer.refresh = spotify.accepted
                \/ call[c].answer.refresh = NoToken /\ refresh = spotify.accepted
<1>1. /\ credentials /\ refresh # NoToken /\ ~spotify.unheard
      /\ spotify.apponly = {} /\ spotify.accepted # NoToken
  BY DEF CanRefresh, InvAlone, Inv, Typed, SpotifyState, NoToken, Rotation, Refreshed
<1>2. call[c] \in CallState /\ Counted(call[c]) /\ Running(call[c]) /\ Told(c)
  BY CallFacts DEF InvAlone, Undisturbed, Inv, Rotation
<1>3. call[c].attempt \in {1, 2}
  <2>1. call[c].attempt \in 1..MaxRetries + 1 /\ call[c].attempt <= 2
    BY <1>2, RunningFacts DEF Alone
  <2> QED
    BY <2>1, SpotifyAssumption DEF SpotifyAssumption
<1>4. call[c].answer.refresh # NoToken => call[c].answer.refresh = spotify.accepted
  BY <1>2 DEF Told
<1>5. CASE call[c].answer.refresh = NoToken
  <2>1. \A d \in Calls : d # c => call[d].pc # "keep"
    BY DEF Alone, Running, Over
  <2> QED
    BY <1>1, <1>2, <1>3, <1>5, <2>1 DEF InvAlone, Inv, Rotation, KeepsRotatedToken
<1> QED
  BY <1>1, <1>2, <1>3, <1>4, <1>5
\* A failure outside the client is not a step of a call that nothing hurts.
LEMMA HurtAlone ==
    ASSUME InvAlone, NEW c \in Calls, NEW l, Becomes(c, l), Running(call[c]),
           l.alone = call[c].alone, l.hurt, CanRefresh' => CanRefresh
    PROVE  (Solo /\ SucceedsAlone)'
BY StepAlone

LEMMA ResolveAlone ==
    ASSUME InvAlone, NEW c \in Calls, Resolve(c)
    PROVE  (Solo /\ SucceedsAlone)'
<1> DEFINE k == call[c]
           l == Resolved(k)
<1>1. /\ k.pc = "resolve" /\ Becomes(c, l)
      /\ UNCHANGED <<cached, expiry, refresh, credentials, spotify>>
  BY DEF Resolve, client
<1>2. k \in CallState /\ Counted(k) /\ Running(k)
  BY <1>1, CallFacts DEF Running, Over, InvAlone
<1>3. \/ /\ cached # NoToken /\ l.pc = "return" /\ l.attempt = k.attempt
         /\ l.alone = k.alone /\ l.hurt = k.hurt
      \/ /\ l.pc = "grant" /\ l.body = refresh /\ l.attempt = k.attempt
         /\ l.alone = k.alone /\ l.hurt = k.hurt
      \/ /\ ~credentials /\ l = Raise(k)
  BY <1>2 DEF Resolved, CallState
<1>4. Raise(k).hurt = k.hurt /\ Raise(k).alone = k.alone
  BY <1>2, RaiseOutcome DEF Outcome
<1>5. l.alone = k.alone /\ l.hurt = k.hurt
  BY <1>3, <1>4
<1>6. call'[c] = l /\ \A d \in Calls : d # c => call'[d] = call[d]
  BY <1>1 DEF Becomes, InvAlone, Inv, Typed
<1> HIDE DEF l
<1>7. ASSUME CanRefresh, Undisturbed(k), Alone(c), ~l.hurt
      PROVE  l.pc # "failed" /\ (Running(l) => Alone(c)')
  <2>1. /\ credentials /\ refresh = spotify.accepted
        /\ k.attempt <= 2 /\ (k.attempt = 2 => cached = NoToken)
        /\ \A d \in Calls \ {c} : ~Running(call[d])
    BY <1>1, <1>7, AloneFacts DEF Alone
  <2> QED
    BY <1>1, <1>3, <1>6, <2>1 DEF Alone
<1>8. CanRefresh' => CanRefresh
  BY <1>1 DEF CanRefresh
<1> QED
  BY <1>1, <1>2, <1>5, <1>7, <1>8, StepAlone

LEMMA FieldAlone ==
    ASSUME InvAlone, NEW c \in Calls, Return(c) \/ StoreToken(c) \/ ExtendExpiry(c) \/ Clear(c)
    PROVE  (Solo /\ SucceedsAlone)'
<1> DEFINE k == call[c]
<1>1. /\ k \in CallState /\ Counted(k)
      /\ UNCHANGED <<refresh, credentials, spotify>>
  BY CallFacts DEF Return, StoreToken, ExtendExpiry, Clear, client, InvAlone
<1>2. CanRefresh' => CanRefresh
  BY <1>1 DEF CanRefresh
<1>3. ASSUME NEW l, Becomes(c, l), l.pc \in {"send", "extend", "return", "clear_expiry"},
             Running(k), l.alone = k.alone, l.hurt = k.hurt, l.attempt = k.attempt,
             k.pc # "keep",
             CanRefresh /\ Undisturbed(k) /\ Alone(c) =>
                /\ l.pc = "send" => l.bearer # NoToken
                /\ l.pc = "send" /\ k.attempt = 2 => l.bearer \in spotify.live
                /\ l.pc = "extend" => cached' \in spotify.live \ {NoToken}
                /\ l.pc = "return" => cached' \in spotify.live \ {NoToken}
                /\ l.pc = "clear_expiry" => k.attempt = 1 /\ cached' = NoToken
      PROVE  (Solo /\ SucceedsAlone)'
  <2>1. call'[c] = l /\ \A d \in Calls : d # c => call'[d] = call[d]
    BY <1>3 DEF Becomes, InvAlone, Inv, Typed
  <2>2. ASSUME CanRefresh, Undisturbed(k), Alone(c)
        PROVE  l.pc # "failed" /\ Alone(c)'
    <3>1. /\ refresh = spotify.accepted /\ k.attempt <= 2
          /\ \A d \in Calls \ {c} : ~Running(call[d])
      BY <1>3, <2>2 DEF Alone
    <3> QED
      BY <1>1, <1>3, <2>1, <2>2, <3>1 DEF Alone
  <2> QED
    BY <1>2, <1>3, <2>2, StepAlone
<1>4. CASE Return(c)
  <2> DEFINE l == [k EXCEPT !.pc = "send", !.bearer = cached]
  <2>1. /\ k.pc = "return" /\ Becomes(c, l) /\ l.pc = "send" /\ l.bearer = cached
        /\ l.alone = k.alone /\ l.hurt = k.hurt /\ l.attempt = k.attempt
    BY <1>1, <1>4 DEF Return, CallState
  <2> HIDE DEF l
  <2> QED
    BY <1>3, <2>1 DEF Running, Over, Alone
<1>5. CASE StoreToken(c)
  <2> DEFINE l == [k EXCEPT !.pc = "extend", !.answer = Idle.answer]
  <2>1. /\ k.pc = "store" /\ Becomes(c, l) /\ l.pc = "extend" /\ cached' = k.answer.token
        /\ l.alone = k.alone /\ l.hurt = k.hurt /\ l.attempt = k.attempt
    BY <1>1, <1>5 DEF StoreToken, CallState
  <2> HIDE DEF l
  <2> QED
    BY <1>3, <2>1 DEF Running, Over, Alone
<1>6. CASE ExtendExpiry(c)
  <2> DEFINE l == [k EXCEPT !.pc = "return"]
  <2>1. /\ k.pc = "extend" /\ Becomes(c, l) /\ l.pc = "return" /\ cached' = cached
        /\ l.alone = k.alone /\ l.hurt = k.hurt /\ l.attempt = k.attempt
    BY <1>1, <1>6 DEF ExtendExpiry, CallState
  <2> HIDE DEF l
  <2> QED
    BY <1>3, <2>1 DEF Running, Over, Alone
<1>7. CASE Clear(c)
  <2> DEFINE l == [k EXCEPT !.pc = "clear_expiry"]
  <2>1. /\ k.pc = "clear" /\ Becomes(c, l) /\ l.pc = "clear_expiry" /\ cached' = NoToken
        /\ l.alone = k.alone /\ l.hurt = k.hurt /\ l.attempt = k.attempt
    BY <1>1, <1>7 DEF Clear, CallState
  <2> HIDE DEF l
  <2> QED
    BY <1>3, <2>1 DEF Running, Over, Alone
<1> QED
  BY <1>4, <1>5, <1>6, <1>7
LEMMA GrantStepAlone ==
    ASSUME InvAlone, NEW c \in Calls, Grant(c)
    PROVE  (Solo /\ SucceedsAlone)'
<1> DEFINE k == call[c]
           l == [k EXCEPT !.pc = "keep", !.body = NoToken,
                   !.answer = [token   |-> Unheld(Held),
                               refresh |-> IF Rotates(k.body) THEN spotify'.accepted
                                           ELSE NoToken]]
<1>1. /\ k.pc = "grant" /\ Honoured(k) /\ spotify' = Granted(k.body, FALSE)
      /\ Becomes(c, l) /\ UNCHANGED <<cached, expiry, refresh, credentials>>
  BY DEF Grant, client
<1>2. k \in CallState /\ Counted(k) /\ Running(k)
  BY <1>1, CallFacts DEF Running, Over, InvAlone
<1>3. /\ Unheld(Held) \in spotify'.live \ {NoToken}
      /\ spotify'.unheard = spotify.unheard
  <2>1. Unheld(Held) \in spotify'.live
    BY <1>1, GrantedFacts DEF InvAlone
  <2>2. spotify'.unheard = (spotify.unheard \/ (Rotates(k.body) /\ FALSE))
    BY <1>1, GrantedFacts DEF InvAlone
  <2>3. spotify.unheard \in BOOLEAN
    BY DEF InvAlone, Inv, Typed, SpotifyState
  <2> QED
    BY <2>1, <2>2, <2>3, Issued DEF NoToken
<1>4. /\ l.pc = "keep" /\ l.answer.token = Unheld(Held)
      /\ l.attempt = k.attempt /\ l.hurt = k.hurt /\ l.alone = k.alone
  BY <1>2 DEF CallState
<1> HIDE DEF l
<1>5. call'[c] = l /\ \A d \in Calls : d # c => call'[d] = call[d]
  BY <1>1 DEF Becomes, InvAlone, Inv, Typed
<1>6. ASSUME Alone(c)
      PROVE  l.pc # "failed" /\ Alone(c)'
  <2>1. k.attempt <= 2 /\ \A d \in Calls \ {c} : ~Running(call[d])
    BY <1>6 DEF Alone
  <2> QED
    BY <1>3, <1>4, <1>5, <2>1 DEF Alone
<1>7. CanRefresh' => CanRefresh
  BY <1>1, <1>3 DEF CanRefresh
<1> QED
  BY <1>1, <1>2, <1>4, <1>6, <1>7, StepAlone

LEMMA GrantRefusedAlone ==
    ASSUME InvAlone, NEW c \in Calls, GrantRefused(c)
    PROVE  (Solo /\ SucceedsAlone)'
<1> DEFINE k == call[c]
<1>1. /\ k.pc = "grant" /\ ~Honoured(k) /\ Becomes(c, Raise(k))
      /\ UNCHANGED <<refresh, credentials, spotify>>
  BY DEF GrantRefused, client
<1>2. k \in CallState /\ Counted(k) /\ Running(k)
  BY <1>1, CallFacts DEF Running, Over, InvAlone
<1>3. Raise(k).hurt = k.hurt /\ Raise(k).alone = k.alone
  BY <1>2, RaiseOutcome DEF Outcome
<1>4. ~Alone(c)
  BY <1>1 DEF Alone, Honoured
<1>5. CanRefresh' => CanRefresh
  BY <1>1 DEF CanRefresh
<1> QED
  BY <1>1, <1>2, <1>3, <1>4, <1>5, StepAlone

LEMMA GrantLostAlone ==
    ASSUME InvAlone, NEW c \in Calls, GrantLost(c)
    PROVE  (Solo /\ SucceedsAlone)'
<1> DEFINE k == call[c]
<1>1. k.pc = "grant" /\ UNCHANGED <<refresh, credentials>>
  BY DEF GrantLost, client
<1>2. k \in CallState /\ Counted(k) /\ Running(k)
  BY <1>1, CallFacts DEF Running, Over, InvAlone
<1>3. PICK l \in {AgainGrant(k), Raise(k)} : Becomes(c, Hurt(l))
  BY DEF GrantLost
<1>4. l \in CallState /\ l.alone = k.alone
  <2>1. Raise(k).alone = k.alone
    BY <1>2, RaiseOutcome DEF Outcome
  <2>2. AgainGrant(k).alone = k.alone
    BY <1>2, <2>1 DEF AgainGrant, CallState
  <2> QED
    BY <1>2, <2>1, <2>2, CallTypes
<1>5. Hurt(l).hurt /\ Hurt(l).alone = k.alone
  BY <1>4 DEF Hurt, CallState
<1>6. CanRefresh' => CanRefresh
  <2>1. CASE UNCHANGED spotify
    BY <1>1, <2>1 DEF CanRefresh
  <2>2. CASE Honoured(k) /\ spotify' = Granted(k.body, TRUE)
    <3>1. spotify'.unheard = (spotify.unheard \/ (Rotates(k.body) /\ TRUE))
      BY <1>1, <2>2, GrantedFacts DEF InvAlone
    <3> QED
      BY <1>1, <3>1 DEF CanRefresh
  <2> QED
    BY <2>1, <2>2 DEF GrantLost
<1> QED
  BY <1>2, <1>3, <1>5, <1>6, HurtAlone

LEMMA KeepRefreshAlone ==
    ASSUME InvAlone, NEW c \in Calls, KeepRefresh(c)
    PROVE  (Solo /\ SucceedsAlone)'
<1> DEFINE k == call[c]
           l == [k EXCEPT !.pc = "store", !.answer.refresh = NoToken]
<1>1. /\ k.pc = "keep" /\ refresh' = KeptRefresh(k) /\ Becomes(c, l)
      /\ UNCHANGED <<cached, expiry, credentials, spotify>>
  BY DEF KeepRefresh
<1>2. k \in CallState /\ Counted(k) /\ Running(k)
  BY <1>1, CallFacts DEF Running, Over, InvAlone
<1>3. /\ l.pc = "store" /\ l.answer.token = k.answer.token
      /\ l.attempt = k.attempt /\ l.hurt = k.hurt /\ l.alone = k.alone
  BY <1>2 DEF CallState, Tokens
<1> HIDE DEF l
<1>4. call'[c] = l /\ \A d \in Calls : d # c => call'[d] = call[d]
  BY <1>1 DEF Becomes, InvAlone, Inv, Typed
<1>5. ASSUME CanRefresh, Undisturbed(k), Alone(c)
      PROVE  l.pc # "failed" /\ Alone(c)'
  <2>1. /\ k.attempt <= 2 /\ \A d \in Calls \ {c} : ~Running(call[d])
        /\ k.answer.token \in spotify.live \ {NoToken}
    BY <1>1, <1>5 DEF Alone
  <2>2. refresh' = spotify.accepted
    BY <1>1, <1>5, AloneFacts DEF KeptRefresh
  <2> QED
    BY <1>1, <1>3, <1>4, <2>1, <2>2 DEF Alone
<1>6. CanRefresh' => CanRefresh
  <2>1. k.answer.refresh # NoToken => refresh # NoToken
    BY DEF InvAlone, Inv, Rotation, Unrefreshed
  <2> QED
    BY <1>1, <2>1 DEF CanRefresh, KeptRefresh
<1> QED
  BY <1>1, <1>2, <1>3, <1>5, <1>6, StepAlone

LEMMA RequestAlone ==
    ASSUME InvAlone, NEW c \in Calls,
           SendEmpty(c) \/ Carried(c) \/ Unusable(c) \/ Refused(c) \/ Forbidden(c)
             \/ Broken(c) \/ Lost(c)
    PROVE  (Solo /\ SucceedsAlone)'
<1> DEFINE k == call[c]
<1>1. k.pc = "send" /\ UNCHANGED <<cached, expiry, refresh, credentials, spotify>>
  BY DEF SendEmpty, Carried, Unusable, Refused, Forbidden, Broken, Lost, Sending, client
<1>2. /\ k \in CallState /\ Counted(k) /\ Running(k)
      /\ k.body = NoToken /\ k.answer.refresh = NoToken
  BY <1>1, SendingFacts DEF InvAlone
<1>3. CanRefresh' => CanRefresh
  BY <1>1 DEF CanRefresh
<1>4. ASSUME NEW l, Becomes(c, l)
      PROVE  call'[c] = l /\ \A d \in Calls : d # c => call'[d] = call[d]
  BY <1>4 DEF Becomes, InvAlone, Inv, Typed
<1>5. ASSUME NEW l, Becomes(c, Hurt(l)), Outcome(k, l), Tokenless(l)
      PROVE  (Solo /\ SucceedsAlone)'
  <2>1. Hurt(l).hurt /\ Hurt(l).alone = k.alone
    BY <1>2, <1>5, HurtOutcome DEF Outcome
  <2> QED
    BY <1>2, <1>3, <1>5, <2>1, HurtAlone
<1>6. CASE SendEmpty(c)
  <2>1. Becomes(c, Again(k)) /\ k.bearer = NoToken
    BY <1>6 DEF SendEmpty
  <2>2. ~Alone(c)
    BY <1>1, <2>1 DEF Alone
  <2> QED
    BY <1>2, <1>3, <2>1, <2>2, AgainOutcome, StepAlone DEF Outcome
<1>7. CASE Carried(c)
  <2> DEFINE l == Onward(Count(k))
  <2>1. /\ Becomes(c, l) /\ l.alone = k.alone /\ l.hurt = k.hurt
        /\ l.pc \in {"ok", "resolve"} /\ (l.pc = "resolve" => l.attempt = 1)
    BY <1>2, <1>7, OnwardOutcome DEF Carried, Outcome
  <2> HIDE DEF l
  <2>2. ASSUME Alone(c), Running(l) PROVE Alone(c)'
    <3>1. /\ refresh = spotify.accepted /\ \A d \in Calls \ {c} : ~Running(call[d])
          /\ l.pc = "resolve"
      BY <1>1, <2>1, <2>2 DEF Alone, Running, Over
    <3> QED
      BY <1>1, <1>4, <2>1, <3>1 DEF Alone
  <2> QED
    BY <1>2, <1>3, <2>1, <2>2, StepAlone
<1>8. CASE Unusable(c)
  BY <1>2, <1>5, <1>8, RaiseOutcome DEF Unusable
<1>9. CASE Refused(c)
  <2> DEFINE l == AfterRefusal(k)
  <2>1. /\ Becomes(c, l) /\ l.alone = k.alone /\ l.hurt = k.hurt
        /\ credentials => l = [k EXCEPT !.pc = "clear"]
        /\ ~Accepts(k.bearer, Request(c))
    BY <1>2, <1>9, RefusalOutcome DEF Refused, Outcome
  <2> HIDE DEF l
  <2>2. ASSUME CanRefresh, Undisturbed(k), Alone(c)
        PROVE  l.pc # "failed" /\ Alone(c)'
    <3>1. /\ credentials /\ spotify.apponly = {} /\ k.attempt \in {1, 2}
      BY <2>2, AloneFacts
    <3>2. k.attempt = 1
      BY <1>1, <2>1, <2>2, <3>1 DEF Alone, Accepts
    <3>3. l.pc = "clear" /\ l.attempt = 1
      BY <1>2, <2>1, <3>1, <3>2 DEF CallState
    <3>4. refresh = spotify.accepted /\ \A d \in Calls \ {c} : ~Running(call[d])
      BY <1>1, <2>2 DEF Alone
    <3> QED
      BY <1>1, <1>4, <2>1, <3>3, <3>4 DEF Alone
  <2> QED
    BY <1>2, <1>3, <2>1, <2>2, StepAlone
<1>10. CASE Forbidden(c)
  BY <1>2, <1>5, <1>10, RefusalOutcome DEF Forbidden
<1>11. CASE Broken(c)
  BY <1>2, <1>5, <1>11, RaiseOutcome DEF Broken, AfterBroken
<1>12. CASE Lost(c)
  BY <1>2, <1>5, <1>12, AgainOutcome DEF Lost
<1> QED
  BY <1>6, <1>7, <1>8, <1>9, <1>10, <1>11, <1>12
\* The renewal after a refusal is the second attempt, so there has to be one.
LEMMA ClearExpiryAlone ==
    ASSUME InvAlone, MaxRetries # 0, NEW c \in Calls, ClearExpiry(c)
    PROVE  (Solo /\ SucceedsAlone)'
<1> DEFINE k == call[c]
           l == Again(k)
<1>1. /\ k.pc = "clear_expiry" /\ Becomes(c, l)
      /\ UNCHANGED <<cached, refresh, credentials, spotify>>
  BY DEF ClearExpiry
<1>2. k \in CallState /\ Counted(k) /\ Running(k)
      /\ k.body = NoToken /\ k.answer.refresh = NoToken
  BY <1>1, SendingFacts DEF InvAlone
<1>3. /\ l.alone = k.alone /\ l.hurt = k.hurt
      /\ k.attempt <= MaxRetries => l = [k EXCEPT !.pc = "resolve", !.attempt = k.attempt + 1,
                                                  !.bearer = NoToken]
  BY <1>2, AgainOutcome DEF Outcome
<1> HIDE DEF l
<1>4. call'[c] = l /\ \A d \in Calls : d # c => call'[d] = call[d]
  BY <1>1 DEF Becomes, InvAlone, Inv, Typed
<1>5. ASSUME Alone(c)
      PROVE  l.pc # "failed" /\ Alone(c)'
  <2>1. /\ k.attempt = 1 /\ cached = NoToken /\ refresh = spotify.accepted
        /\ \A d \in Calls \ {c} : ~Running(call[d])
    BY <1>1, <1>5 DEF Alone
  <2>2. l = [k EXCEPT !.pc = "resolve", !.attempt = k.attempt + 1, !.bearer = NoToken]
    BY <1>3, <2>1, SpotifyAssumption DEF SpotifyAssumption
  <2>3. l.pc = "resolve" /\ l.attempt = 2
    BY <1>2, <2>1, <2>2 DEF CallState
  <2> QED
    BY <1>1, <1>4, <2>1, <2>3 DEF Alone
<1>6. CanRefresh' => CanRefresh
  BY <1>1 DEF CanRefresh
<1> QED
  BY <1>1, <1>2, <1>3, <1>5, <1>6, StepAlone

LEMMA BeginAlone ==
    ASSUME InvAlone, NEW c \in Calls, Begin(c)
    PROVE  (Solo /\ SucceedsAlone)'
<1>1. PICK a \in BOOLEAN, todo \in Todo :
        LET l == [Idle EXCEPT !.pc = "resolve", !.attempt = 1, !.todo = todo, !.alone = a]
        IN  /\ l \in CallState /\ todo # <<>>
            /\ a = (\A d \in Calls \ {c} : ~Running(call[d]))
            /\ call' = [d \in Calls |->
                 IF d = c THEN l
                 ELSE IF Running(call[d]) THEN [call[d] EXCEPT !.alone = FALSE]
                 ELSE call[d]]
  BY Begun
<1> DEFINE l == [Idle EXCEPT !.pc = "resolve", !.attempt = 1, !.todo = todo, !.alone = a]
<1>2. l.pc = "resolve" /\ l.attempt = 1 /\ l.alone = a
  BY DEF Idle
<1>3. /\ call'[c] = l /\ a = (\A d \in Calls \ {c} : ~Running(call[d]))
      /\ \A d \in Calls : d # c =>
           call'[d] = IF Running(call[d]) THEN [call[d] EXCEPT !.alone = FALSE] ELSE call[d]
  BY <1>1
<1>4. /\ call[c].pc = "idle" /\ UNCHANGED <<cached, expiry, refresh, credentials, spotify>>
  BY DEF Begin, client
<1> HIDE DEF l
<1>5. ASSUME NEW d \in Calls, d # c, Running(call[d])
      PROVE  ~call'[d].alone /\ call'[d].pc = call[d].pc
  <2>1. call[d] \in CallState
    BY CallFacts DEF InvAlone
  <2>2. call'[d] = [call[d] EXCEPT !.alone = FALSE]
    BY <1>3, <1>5
  <2> QED
    BY <2>1, <2>2 DEF CallState
<1>6. ASSUME NEW d \in Calls, d # c, ~Running(call[d]) PROVE call'[d] = call[d]
  BY <1>3, <1>6
<1>7. ASSUME NEW d \in Calls, CanRefresh, Undisturbed(call'[d]) PROVE Alone(d)'
  <2>1. d = c
    BY <1>5, <1>6, <1>7 DEF Undisturbed
  <2>2. a
    BY <1>2, <1>3, <1>7, <2>1 DEF Undisturbed
  <2>3. \A e \in Calls \ {c} : ~Running(call[e]) /\ call'[e] = call[e]
    BY <1>3, <1>6, <2>2
  <2>4. \A e \in Calls : call[e].pc # "keep"
    BY <1>4, <2>3 DEF Running, Over
  <2>5. refresh = spotify.accepted
    BY <1>7, <2>4 DEF CanRefresh, InvAlone, Inv, Rotation, KeepsRotatedToken
  <2> QED
    BY <1>2, <1>3, <1>4, <2>1, <2>3, <2>5 DEF Alone
<1>8. ASSUME NEW d \in Calls, CanRefresh, call'[d].pc = "failed"
      PROVE  call'[d].hurt \/ ~call'[d].alone
  <2>1. d # c
    BY <1>2, <1>3, <1>8
  <2>2. CASE Running(call[d])
    BY <1>5, <2>1, <2>2
  <2>3. CASE ~Running(call[d])
    BY <1>6, <1>8, <2>1, <2>3 DEF CanRefresh, InvAlone, SucceedsAlone
  <2> QED
    BY <2>2, <2>3
<1> QED
  BY <1>4, <1>7, <1>8 DEF Solo, SucceedsAlone, CanRefresh

\* Steps of nobody.
LEMMA RevokeAlone ==
    ASSUME InvAlone, Revoke
    PROVE  (Solo /\ SucceedsAlone)'
<1>1. PICK t \in spotify.live :
        spotify' = [spotify EXCEPT !.live = @ \ {t}, !.apponly = @ \ {t}]
  BY DEF Revoke
<1>2. /\ call' = [c \in Calls |-> IF Running(call[c]) THEN Hurt(call[c]) ELSE call[c]]
      /\ UNCHANGED <<refresh, credentials>>
  BY DEF Revoke, client
<1>3. spotify'.unheard = spotify.unheard
  BY <1>1 DEF InvAlone, Inv, Typed, SpotifyState
<1>4. ASSUME NEW d \in Calls
      PROVE  IF Running(call[d]) THEN call'[d].hurt ELSE call'[d] = call[d]
  <2>1. call[d] \in CallState
    BY CallFacts DEF InvAlone
  <2>2. Hurt(call[d]).hurt
    BY <2>1 DEF Hurt, CallState
  <2> QED
    BY <1>2, <2>2
<1>5. \A d \in Calls : ~Undisturbed(call'[d])
  BY <1>4 DEF Undisturbed
<1> QED
  BY <1>2, <1>3, <1>4, <1>5 DEF Solo, SucceedsAlone, InvAlone

LEMMA StillAlone ==
    ASSUME InvAlone, UNCHANGED <<cached, refresh, credentials, spotify, call>>
    PROVE  (Solo /\ SucceedsAlone)'
<1>1. \A c \in Calls : Alone(c) => Alone(c)'
  BY DEF Alone
<1> QED
  BY <1>1 DEF Solo, SucceedsAlone, InvAlone, CanRefresh

LEMMA InitAlone == Init => InvAlone
<1> SUFFICES ASSUME Init PROVE InvAlone
  OBVIOUS
<1>1. \A c \in Calls : call[c].pc = "idle"
  BY DEF Init, Idle
<1> QED
  BY <1>1, InitInv DEF InvAlone, Solo, SucceedsAlone, Undisturbed, Running

LEMMA NextAlone ==
    ASSUME MaxRetries # 0
    PROVE  InvAlone /\ [Next]_vars => InvAlone'
<1> SUFFICES ASSUME InvAlone, [Next]_vars PROVE InvAlone'
  OBVIOUS
<1>1. Inv'
  BY NextInv DEF InvAlone
<1>2. (Solo /\ SucceedsAlone)'
  <2>1. ASSUME NEW c \in Calls, Begin(c) PROVE (Solo /\ SucceedsAlone)'
    BY <2>1, BeginAlone
  <2>2. ASSUME NEW c \in Calls, Step(c) PROVE (Solo /\ SucceedsAlone)'
    BY <2>2, ResolveAlone, FieldAlone, GrantStepAlone, GrantRefusedAlone, GrantLostAlone,
       KeepRefreshAlone, RequestAlone, ClearExpiryAlone DEF Step
  <2>3. CASE Revoke
    BY <2>3, RevokeAlone
  <2>4. CASE Expire \/ AllOver \/ UNCHANGED vars
    BY <2>4, StillAlone DEF Expire, AllOver, vars, client
  <2> QED
    BY <2>1, <2>2, <2>3, <2>4 DEF Next
<1> QED
  BY <1>1, <1>2 DEF InvAlone

\* With at least one retry, a call that met no failure outside the client and no
\* other call, in a client that can refresh, does not fail, whatever earlier
\* calls left in the cache.
THEOREM AloneSucceeds ==
    ASSUME MaxRetries # 0
    PROVE  Spec => []SucceedsAlone
<1>1. InvAlone => SucceedsAlone
  BY DEF InvAlone
<1> QED
  BY <1>1, InitAlone, NextAlone, PTL DEF Spec
-----------------------------------------------------------------------------
(* The client is a tool adapter. *)

\* What an observer of calls can tell of a step: the call goes on or ends, and
\* the command may have been carried out once more.
Visible(k, l) ==
    /\ Running(l) \/ Over(l)
    /\ \/ l.performed = k.performed /\ l.pc # "ok"
       \/ l.performed = k.performed + 1 /\ k.performed <= MaxRetries

LEMMA OutcomeVisible ==
    ASSUME NEW k, NEW l, Outcome(k, l)
    PROVE  Visible(k, l)
BY DEF Outcome, Visible, Running

LEMMA StepVisible ==
    ASSUME Inv, NEW c \in Calls, Step(c)
    PROVE  Running(call[c]) /\ \E l : Becomes(c, l) /\ Visible(call[c], l)
<1> DEFINE k == call[c]
<1>1. k \in CallState /\ Counted(k) /\ Holds(k)
  BY CallFacts
<1>2. k.pc \in {"send", "clear_expiry"} => k.body = NoToken /\ k.answer.refresh = NoToken
  BY <1>1 DEF Holds
<1>3. Running(k)
  BY DEF Step, Resolve, Return, Grant, GrantRefused, GrantLost, KeepRefresh, StoreToken,
         ExtendExpiry, SendEmpty, Carried, Unusable, Refused, Forbidden, Broken, Lost,
         Sending, Clear, ClearExpiry, Running, Over
<1>4. ASSUME NEW l, l.performed = k.performed,
             l.pc \in {"resolve", "return", "grant", "keep", "store", "extend", "send",
                       "clear", "clear_expiry"}
      PROVE  Visible(k, l)
  BY <1>4 DEF Visible, Running, Over
<1>5. ASSUME NEW l, Outcome(k, l), Tokenless(l) PROVE Visible(k, Hurt(l))
  BY <1>1, <1>5, HurtOutcome, OutcomeVisible
<1>6. Visible(k, Raise(k)) /\ Visible(k, Hurt(Raise(k)))
  BY <1>1, <1>3, <1>5, RaiseOutcome, OutcomeVisible
<1>7. CASE Resolve(c)
  <2>1. Becomes(c, Resolved(k))
    BY <1>7 DEF Resolve
  <2>2. \/ /\ Resolved(k).pc \in {"return", "grant"}
           /\ Resolved(k).performed = k.performed
        \/ Resolved(k) = Raise(k)
    BY <1>1 DEF Resolved, CallState
  <2> QED
    BY <1>3, <1>4, <1>6, <2>1, <2>2
<1>8. CASE Return(c) \/ StoreToken(c) \/ ExtendExpiry(c) \/ Clear(c) \/ KeepRefresh(c)
  <2>1. PICK l \in {[k EXCEPT !.pc = "send", !.bearer = cached],
                    [k EXCEPT !.pc = "extend", !.answer = Idle.answer],
                    [k EXCEPT !.pc = "return"], [k EXCEPT !.pc = "clear_expiry"],
                    [k EXCEPT !.pc = "store", !.answer.refresh = NoToken]} : Becomes(c, l)
    BY <1>8 DEF Return, StoreToken, ExtendExpiry, Clear, KeepRefresh
  <2>2. /\ l.pc \in {"send", "extend", "return", "clear_expiry", "store"}
        /\ l.performed = k.performed
    BY <1>1, <2>1 DEF CallState
  <2> QED
    BY <1>3, <1>4, <2>1, <2>2
<1>9. CASE Grant(c)
  <2>1. PICK a : Becomes(c, [k EXCEPT !.pc = "keep", !.body = NoToken, !.answer = a])
    BY <1>9 DEF Grant
  <2> DEFINE l == [k EXCEPT !.pc = "keep", !.body = NoToken, !.answer = a]
  <2>2. l.pc = "keep" /\ l.performed = k.performed
    BY <1>1 DEF CallState
  <2> HIDE DEF l
  <2>3. Visible(k, l)
    BY <1>4, <2>2
  <2> QED
    BY <1>3, <2>1, <2>3 DEF l
<1>10. CASE GrantRefused(c)
  BY <1>3, <1>6, <1>10 DEF GrantRefused
<1>11. CASE GrantLost(c)
  <2>1. PICK l \in {AgainGrant(k), Raise(k)} : Becomes(c, Hurt(l))
    BY <1>11 DEF GrantLost
  <2>2. CASE l = Raise(k)
    BY <1>3, <1>6, <2>1, <2>2
  <2>3. CASE l = [k EXCEPT !.grant = @ + 1]
    <3>1. Hurt(l).pc = "grant" /\ Hurt(l).performed = k.performed
      BY <1>1, <1>11, <2>3 DEF GrantLost, Hurt, CallState
    <3>2. Visible(k, Hurt(l))
      BY <1>4, <3>1
    <3> QED
      BY <1>3, <2>1, <3>2
  <2> QED
    BY <2>1, <2>2, <2>3 DEF AgainGrant
<1>12. CASE ClearExpiry(c)
  BY <1>1, <1>2, <1>3, <1>12, AgainOutcome, OutcomeVisible DEF ClearExpiry
<1>13. CASE \/ SendEmpty(c) \/ Carried(c) \/ Unusable(c) \/ Refused(c)
            \/ Forbidden(c) \/ Broken(c) \/ Lost(c)
  <2>1. k.body = NoToken /\ k.answer.refresh = NoToken
    BY <1>2, <1>13 DEF SendEmpty, Carried, Unusable, Refused, Forbidden, Broken, Lost, Sending
  <2>2. CASE SendEmpty(c)
    BY <1>1, <1>3, <2>1, <2>2, AgainOutcome, OutcomeVisible DEF SendEmpty
  <2>3. CASE Carried(c)
    BY <1>1, <1>3, <2>1, <2>3, OnwardOutcome, OutcomeVisible DEF Carried
  <2>4. CASE Unusable(c)
    BY <1>1, <1>3, <1>5, <2>1, <2>4, RaiseOutcome DEF Unusable
  <2>5. CASE Refused(c)
    BY <1>1, <1>3, <2>1, <2>5, RefusalOutcome, OutcomeVisible DEF Refused
  <2>6. CASE Forbidden(c)
    BY <1>1, <1>3, <1>5, <2>1, <2>6, RefusalOutcome DEF Forbidden
  <2>7. CASE Broken(c)
    BY <1>1, <1>3, <1>5, <2>1, <2>7, RaiseOutcome DEF Broken, AfterBroken
  <2>8. CASE Lost(c)
    BY <1>1, <1>3, <1>5, <2>1, <2>8, AgainOutcome DEF Lost
  <2> QED
    BY <1>13, <2>2, <2>3, <2>4, <2>5, <2>6, <2>7, <2>8
<1> QED
  BY <1>7, <1>8, <1>9, <1>10, <1>11, <1>12, <1>13 DEF Step

Phases == [c \in Calls |-> Phase(call[c])]
Done   == [c \in Calls |-> call[c].performed]

LEMMA PhaseOf ==
    ASSUME NEW k
    PROVE  /\ Running(k) => Phase(k) = "running"
           /\ ~Running(k) => Phase(k) = k.pc
           /\ ~Running(k) => k.pc \in {"idle", "ok", "failed"}
BY DEF Phase, Running, Over

\* Every step of a call is one of the adapter, or is not seen.
LEMMA StepAdapts ==
    ASSUME Inv, NEW c \in Calls, Step(c)
    PROVE  [Adapter!Next]_(Adapter!vars)
<1>1. PICK l : Becomes(c, l) /\ Visible(call[c], l)
  BY StepVisible
<1>2. call'[c] = l /\ \A d \in Calls : d # c => call'[d] = call[d]
  BY <1>1 DEF Becomes, Inv, Typed
<1>3. Phases[c] = "running" /\ Done[c] = call[c].performed
  BY StepVisible, PhaseOf DEF Phases, Done
<1>4. Phases' = [Phases EXCEPT ![c] = Phase(l)] /\ Done' = [Done EXCEPT ![c] = l.performed]
  BY <1>2 DEF Phases, Done
<1>5. Phase(l) = "running" => Phases' = Phases
  BY <1>3, <1>4 DEF Phases
<1>6. l.performed = call[c].performed => Done' = Done
  BY <1>3, <1>4 DEF Done
<1>7. Phase(l) \in {"running", "ok", "failed"} /\ (Phase(l) = "ok" => l.pc = "ok")
  BY <1>1, PhaseOf DEF Visible, Over
<1> HIDE DEF Phases, Done
<1>8. CASE l.performed = call[c].performed /\ l.pc # "ok"
  <2>1. CASE Phase(l) = "running"
    BY <1>5, <1>6, <1>8, <2>1 DEF Adapter!vars, Phases, Done
  <2>2. CASE Phase(l) = "failed"
    <3>1. Adapter!Fail(c)
      BY <1>3, <1>4, <1>6, <1>8, <2>2 DEF Adapter!Fail, Phases, Done
    <3> QED
      BY <3>1 DEF Adapter!Next
  <2> QED
    BY <1>7, <1>8, <2>1, <2>2
<1>9. CASE l.performed = call[c].performed + 1 /\ call[c].performed <= MaxRetries
  <2>1. Adapter!Perform(c)
    BY <1>3, <1>4, <1>9 DEF Adapter!Perform, Phases, Done
  <2>2. CASE Phase(l) = "running"
    BY <1>5, <2>1, <2>2 DEF Adapter!Next, Adapter!Carry, Phases
  <2>3. CASE Phase(l) = "ok"
    <3>1. Adapter!Succeed(c)
      BY <1>3, <1>4, <2>1, <2>3 DEF Adapter!Succeed, Phases
    <3> QED
      BY <3>1 DEF Adapter!Next
  <2>4. CASE Phase(l) = "failed"
    <3>1. Adapter!Fail(c)
      BY <1>3, <1>4, <2>1, <2>4 DEF Adapter!Fail, Phases
    <3> QED
      BY <3>1 DEF Adapter!Next
  <2> QED
    BY <1>7, <2>2, <2>3, <2>4
<1> QED
  BY <1>1, <1>8, <1>9 DEF Visible
LEMMA BeginAdapts ==
    ASSUME Inv, NEW c \in Calls, Begin(c)
    PROVE  [Adapter!Next]_(Adapter!vars)
<1>1. PICK a \in BOOLEAN, todo \in Todo :
        LET l == [Idle EXCEPT !.pc = "resolve", !.attempt = 1, !.todo = todo, !.alone = a]
        IN  /\ l \in CallState /\ todo # <<>>
            /\ a = (\A d \in Calls \ {c} : ~Running(call[d]))
            /\ call' = [d \in Calls |->
                 IF d = c THEN l
                 ELSE IF Running(call[d]) THEN [call[d] EXCEPT !.alone = FALSE]
                 ELSE call[d]]
  BY Begun
<1> DEFINE l == [Idle EXCEPT !.pc = "resolve", !.attempt = 1, !.todo = todo, !.alone = a]
<1>2. l.pc = "resolve" /\ l.performed = 0
  BY DEF Idle
<1>3. /\ call'[c] = l
      /\ \A d \in Calls : d # c => \/ call'[d] = call[d]
                                   \/ call'[d] = [call[d] EXCEPT !.alone = FALSE]
  BY <1>1
<1> HIDE DEF l
<1>4. ASSUME NEW d \in Calls, d # c
      PROVE  call'[d].pc = call[d].pc /\ call'[d].performed = call[d].performed
  <2>1. call[d] \in CallState
    BY CallFacts
  <2> QED
    BY <1>3, <1>4, <2>1 DEF CallState
<1>5. call[c].pc = "idle" /\ call[c].performed = 0
  BY CallFacts DEF Begin, Counted
<1>6. Phases[c] = "idle" /\ Phases' = [Phases EXCEPT ![c] = "running"]
  BY <1>2, <1>3, <1>4, <1>5 DEF Phases, Phase, Over
<1>7. Done' = Done
  BY <1>2, <1>3, <1>4, <1>5 DEF Done
<1>8. Adapter!Start(c)
  BY <1>6, <1>7 DEF Adapter!Start, Phases, Done
<1> QED
  BY <1>8 DEF Adapter!Next

\* What happens to Spotify and the clock is not seen.
LEMMA RestAdapts ==
    ASSUME Inv, Revoke \/ Expire \/ AllOver \/ UNCHANGED vars
    PROVE  [Adapter!Next]_(Adapter!vars)
<1>1. ASSUME NEW d \in Calls
      PROVE  call'[d].pc = call[d].pc /\ call'[d].performed = call[d].performed
  <2>1. call[d] \in CallState
    BY CallFacts
  <2>2. call'[d] = call[d] \/ call'[d] = Hurt(call[d])
    BY DEF Revoke, Expire, AllOver, vars
  <2> QED
    BY <2>1, <2>2 DEF Hurt, CallState
<1>2. Phases' = Phases
  BY <1>1 DEF Phases, Phase, Over
<1>3. Done' = Done
  BY <1>1 DEF Done
<1> QED
  BY <1>2, <1>3 DEF Adapter!vars, Phases, Done

\* The client implements the adapter that a turn of the assistant calls: an
\* answer only for a command that was carried out, and no more executions than
\* its retries allow.
THEOREM Refinement == Spec => ImplementsAdapter
<1>1. Init => Adapter!Init
  <2>1. ASSUME Init
        PROVE  /\ Phases = [c \in Calls |-> "idle"]
               /\ Done = [c \in Calls |-> 0]
    BY <2>1 DEF Init, Idle, Phases, Done, Phase
  <2> QED
    BY <2>1 DEF Adapter!Init, Phases, Done
<1>2. Inv /\ [Next]_vars => [Adapter!Next]_(Adapter!vars)
  BY StepAdapts, BeginAdapts, RestAdapts DEF Next
<1> QED
  BY <1>1, <1>2, Invariance, PTL DEF Spec, ImplementsAdapter, Adapter!Spec
=============================================================================
