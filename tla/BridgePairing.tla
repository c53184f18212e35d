--------------------------- MODULE BridgePairing ----------------------------
(***************************************************************************)
(* The Bridge's pairing and its heartbeats: the pairing code and the token *)
(* it is traded for (internal/auth/bridge.go), the heartbeat row and the   *)
(* server's cache of it (internal/bridge/status.go), and the handlers that *)
(* call them (internal/api/handlers_bridge.go).  Transactions are atomic;  *)
(* between a handler's steps any other handler's may fall: a heartbeat     *)
(* that was authenticated may be written after its Bridge was replaced, a  *)
(* heartbeat read from the row may be cached after it changed, and a       *)
(* pairing commits before it drops the cache.                              *)
(***************************************************************************)
EXTENDS Integers

CONSTANTS
    Savers,     \* handlers of POST /bridge/status
    Readers,    \* callers of LastHeartbeat
    MaxCodes,   \* bound: pairing codes issued
    MaxBeats,   \* bound: heartbeats stored
    MaxUnpairs, \* bound: unpairs
    AdminMoves  \* may the pairing admin be disabled or demoted?

VARIABLES
    code,      \* bridge_status: the pairing code waiting, 0 for none
    issued,    \* codes issued so far
    tokens,    \* the bridge tokens not revoked, named by the code they came from
    paired,    \* bridge_status: paired_at is set
    beat,      \* bridge_status: the stored heartbeat
    beats,     \* heartbeats stored so far
    unpairs,
    adminOK,   \* whether the pairing admin is an enabled admin
    hb,        \* the cache: a heartbeat, or that there is none
    fresh,     \* the cache was filled less than heartbeatTTL ago (hbRead)
    hbGen,     \* the cache's generation
    forgets,   \* pairings and unpairs committed that have yet to call Forget
    saver,     \* each saver's place, token, generation and heartbeat
    reader     \* each reader's place, generation and heartbeat

pairVars  == <<code, issued, tokens, paired, unpairs, adminOK>>
rowVars   == <<beat, beats>>
cacheVars == <<hb, fresh, hbGen>>
vars == <<pairVars, rowVars, cacheVars, forgets, saver, reader>>

ASSUME BridgePairingAssumption ==
    /\ MaxCodes \in Nat /\ MaxBeats \in Nat /\ MaxUnpairs \in Nat
    /\ AdminMoves \in BOOLEAN

Codes  == 1..MaxCodes
NoBeat == [token |-> 0, n |-> 0]

-----------------------------------------------------------------------------
(* Pairing.                                                                *)

\* BridgeTokenLiveSQL: an unrevoked bridge token of an enabled admin.
BridgeTokenLive(t) == t \in tokens /\ adminOK

\* IssueBridgePairCode: a code replaces the one waiting.
IssueBridgePairCode ==
    /\ issued < MaxCodes /\ adminOK
    /\ issued' = issued + 1
    /\ code' = issued + 1
    /\ UNCHANGED <<tokens, paired, unpairs, adminOK, rowVars, cacheVars, forgets, saver, reader>>

\* The code waiting expires (bridgePairTTL).
CodeExpires ==
    /\ code # 0
    /\ code' = 0
    /\ UNCHANGED <<issued, tokens, paired, unpairs, adminOK, rowVars, cacheVars, forgets, saver, reader>>

\* The exchange uses the code up.
codeAfterExchange(c) == 0

\* revokeBridgeTokensSQL, then insertToken.
tokensAfterExchange(c) == {c}

\* ExchangeBridgeCode with a code presented, then Forget.  A code that is not
\* the one waiting is refused and changes nothing.
ExchangeBridgeCode(c) ==
    /\ code = c /\ adminOK
    /\ code' = codeAfterExchange(c)
    /\ tokens' = tokensAfterExchange(c)
    /\ paired' = TRUE
    /\ beat' = NoBeat
    /\ forgets' = forgets + 1
    /\ UNCHANGED <<issued, unpairs, adminOK, beats, cacheVars, saver, reader>>

\* UnpairBridge, then Forget: the row goes, its code too.
UnpairBridge ==
    /\ unpairs < MaxUnpairs
    /\ unpairs' = unpairs + 1
    /\ tokens' = {} /\ code' = 0 /\ paired' = FALSE /\ beat' = NoBeat
    /\ forgets' = forgets + 1
    /\ UNCHANGED <<issued, adminOK, beats, cacheVars, saver, reader>>

\* Mutant: Forget leaves the generation alone.
Bug_genAfterForget == hbGen
\* The generation a Forget leaves: hbGen++.
genAfterForget == hbGen + 1

\* Forget: the cache is dropped and its generation moves.
Forget ==
    /\ forgets > 0
    /\ forgets' = forgets - 1
    /\ hb' = NoBeat /\ fresh' = FALSE /\ hbGen' = genAfterForget
    /\ UNCHANGED <<pairVars, rowVars, saver, reader>>

\* The pairing admin is disabled or demoted, or made an admin again.
AdminChanges ==
    /\ AdminMoves
    /\ adminOK' = ~adminOK
    /\ UNCHANGED <<code, issued, tokens, paired, unpairs, rowVars, cacheVars, forgets, saver, reader>>

-----------------------------------------------------------------------------
(* A heartbeat (SaveHeartbeat).                                            *)

\* requireBridge: the request's token is checked.
Authenticate(s, t) ==
    /\ saver[s].pc = "idle" /\ BridgeTokenLive(t)
    /\ saver' = [saver EXCEPT ![s] = [pc |-> "gen", token |-> t, gen |-> 0, n |-> 0]]
    /\ UNCHANGED <<pairVars, rowVars, cacheVars, forgets, reader>>

\* gen := s.heartbeatGen(), before the write.
heartbeatGen(s) ==
    /\ saver[s].pc = "gen"
    /\ saver' = [saver EXCEPT ![s] = [@ EXCEPT !.pc = "write", !.gen = hbGen]]
    /\ UNCHANGED <<pairVars, rowVars, cacheVars, forgets, reader>>

\* Mutant: the token that was checked with the request is taken on trust.
Bug_BeatAccepted(t) == paired
\* The update's condition: a Bridge is paired and the token still its own.
BeatAccepted(t) == paired /\ BridgeTokenLive(t)

\* The update of the row, or ErrNotPaired.
WriteBeat(s) ==
    /\ saver[s].pc = "write"
    /\ \/ /\ BeatAccepted(saver[s].token) /\ beats < MaxBeats
          /\ beats' = beats + 1
          /\ beat' = [token |-> saver[s].token, n |-> beats + 1]
          /\ saver' = [saver EXCEPT ![s] = [@ EXCEPT !.pc = "remember", !.n = beats + 1]]
       \/ /\ ~BeatAccepted(saver[s].token)
          /\ saver' = [saver EXCEPT ![s] = [@ EXCEPT !.pc = "idle"]]
          /\ UNCHANGED rowVars
    /\ UNCHANGED <<pairVars, cacheVars, forgets, reader>>

\* What remember caches when the cache moved since the save began: nothing.
Overtaken(s) == NoBeat

\* remember: cache the heartbeat saved, unless the cache moved since.
remember(s) ==
    /\ saver[s].pc = "remember"
    /\ LET same == hbGen = saver[s].gen
       IN  /\ hb' = IF same THEN [token |-> saver[s].token, n |-> saver[s].n] ELSE Overtaken(s)
           /\ fresh' = IF same THEN TRUE ELSE Overtaken(s) # NoBeat
    /\ hbGen' = hbGen + 1
    /\ saver' = [saver EXCEPT ![s] = [@ EXCEPT !.pc = "idle"]]
    /\ UNCHANGED <<pairVars, rowVars, forgets, reader>>

-----------------------------------------------------------------------------
(* A read (LastHeartbeat).                                                 *)

\* The cache answers while it is fresh (a stutter); else the row is read.
LastHeartbeat(r) ==
    /\ reader[r].pc = "idle" /\ ~fresh
    /\ reader' = [reader EXCEPT ![r] = [pc |-> "read", gen |-> hbGen, h |-> NoBeat]]
    /\ UNCHANGED <<pairVars, rowVars, cacheVars, forgets, saver>>

\* readHeartbeat: the stored heartbeat while a Bridge is paired and its token live.
readHeartbeat(r) ==
    /\ reader[r].pc = "read"
    /\ reader' = [reader EXCEPT ![r] =
          [@ EXCEPT !.pc = "keep",
                    !.h = IF paired /\ tokens # {} /\ adminOK THEN beat ELSE NoBeat]]
    /\ UNCHANGED <<pairVars, rowVars, cacheVars, forgets, saver>>

\* keep: cache what was read, unless the cache moved since.
keep(r) ==
    /\ reader[r].pc = "keep"
    /\ IF hbGen = reader[r].gen THEN hb' = reader[r].h /\ fresh' = TRUE
                                ELSE UNCHANGED <<hb, fresh>>
    /\ reader' = [reader EXCEPT ![r] = [@ EXCEPT !.pc = "idle"]]
    /\ UNCHANGED <<pairVars, rowVars, hbGen, forgets, saver>>

\* heartbeatTTL passes.
CacheAges ==
    /\ fresh
    /\ fresh' = FALSE
    /\ UNCHANGED <<pairVars, rowVars, hb, hbGen, forgets, saver, reader>>

-----------------------------------------------------------------------------

Init ==
    /\ code = 0 /\ issued = 0
    /\ tokens = {} /\ paired = FALSE /\ beat = NoBeat /\ beats = 0
    /\ unpairs = 0 /\ adminOK = TRUE
    /\ hb = NoBeat /\ fresh = FALSE /\ hbGen = 0 /\ forgets = 0
    /\ saver = [s \in Savers |-> [pc |-> "idle", token |-> 0, gen |-> 0, n |-> 0]]
    /\ reader = [r \in Readers |-> [pc |-> "idle", gen |-> 0, h |-> NoBeat]]

Next ==
    \/ IssueBridgePairCode
    \/ CodeExpires
    \/ \E c \in Codes : ExchangeBridgeCode(c)
    \/ UnpairBridge
    \/ Forget
    \/ AdminChanges
    \/ \E s \in Savers, t \in Codes : Authenticate(s, t)
    \/ \E s \in Savers : heartbeatGen(s)
    \/ \E s \in Savers : WriteBeat(s)
    \/ \E s \in Savers : remember(s)
    \/ \E r \in Readers : LastHeartbeat(r)
    \/ \E r \in Readers : readHeartbeat(r)
    \/ \E r \in Readers : keep(r)
    \/ CacheAges

Spec == Init /\ [][Next]_vars

-----------------------------------------------------------------------------
(* Properties.                                                             *)

\* The stored heartbeat is the paired Bridge's own: one authenticated before a
\* pairing or an unpair never lands on the pairing that replaced it
\* (SaveHeartbeat).
BeatOfPaired == beat # NoBeat => paired /\ beat.token \in tokens

\* A handler is between its write and the cache.
Settling == forgets > 0 \/ \E s \in Savers : saver[s].pc = "remember"

\* Once every handler that changed the row has settled, a fresh cache answers
\* what the row says: no read or save that was overtaken brings back a replaced
\* heartbeat or an unpaired Bridge (remember, keep).  Only a demoted admin
\* shows late, as no Bridge where there is one again.
CacheCurrent ==
    fresh /\ ~Settling => hb = beat \/ (AdminMoves /\ hb = NoBeat)

=============================================================================
