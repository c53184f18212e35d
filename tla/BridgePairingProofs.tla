------------------------ MODULE BridgePairingProofs -------------------------
(***************************************************************************)
(* Proofs about BridgePairing, for any number of handlers, codes,          *)
(* heartbeats and unpairs.  CacheCurrent is not inductive: whether a       *)
(* handler may cache what it carries turns on the generation it read, so   *)
(* the invariant says what a handler whose generation is still the cache's *)
(* carries (SaverInv, ReaderInv).                                          *)
(***************************************************************************)
EXTENDS BridgePairing, TLAPS

Beats == [token : Nat, n : Nat]

\* The shapes, and no handler is ahead of the cache's generation.
Shapes ==
    /\ code \in Nat /\ issued \in Nat /\ tokens \subseteq Nat
    /\ beat \in Beats /\ beats \in Nat /\ hb \in Beats
    /\ hbGen \in Nat /\ forgets \in Nat
    /\ paired \in BOOLEAN /\ adminOK \in BOOLEAN /\ fresh \in BOOLEAN
    /\ saver \in [Savers -> [pc : {"idle", "gen", "write", "remember"},
                             token : Nat, gen : Nat, n : Nat]]
    /\ reader \in [Readers -> [pc : {"idle", "read", "keep"}, gen : Nat, h : Beats]]
    /\ \A s \in Savers : saver[s].gen <= hbGen
    /\ \A r \in Readers : reader[r].gen <= hbGen

\* Only a moving admin is not enabled.
AdminInv == adminOK \/ AdminMoves

\* A saver that may still cache its heartbeat has the stored one, or another
\* handler is yet to move the cache.
SaverInv ==
    \A s \in Savers :
        saver[s].pc = "remember" /\ saver[s].gen = hbGen =>
            \/ beat = [token |-> saver[s].token, n |-> saver[s].n]
            \/ forgets > 0
            \/ \E o \in Savers \ {s} : saver[o].pc = "remember"

\* A reader that may still cache what it read has what a read would find, or a
\* handler is yet to move the cache.
ReaderInv ==
    \A r \in Readers :
        reader[r].pc = "keep" /\ reader[r].gen = hbGen =>
            \/ reader[r].h = beat
            \/ AdminMoves /\ reader[r].h = NoBeat
            \/ Settling

IInv == Shapes /\ AdminInv /\ BeatOfPaired /\ SaverInv /\ ReaderInv /\ CacheCurrent

-----------------------------------------------------------------------------

LEMMA InitInv == Init => IInv
<1> SUFFICES ASSUME Init PROVE IInv
  OBVIOUS
<1>1. NoBeat \in Beats
  BY DEF NoBeat, Beats
<1>2. /\ \A s \in Savers : saver[s] = [pc |-> "idle", token |-> 0, gen |-> 0, n |-> 0]
      /\ \A r \in Readers : reader[r] = [pc |-> "idle", gen |-> 0, h |-> NoBeat]
      /\ hbGen = 0
  BY DEF Init
<1>3. /\ \A s \in Savers : saver[s].pc = "idle" /\ saver[s].gen <= hbGen
      /\ \A r \in Readers : reader[r].pc = "idle" /\ reader[r].gen <= hbGen
  BY <1>2
<1>4. /\ saver \in [Savers -> [pc : {"idle", "gen", "write", "remember"},
                               token : Nat, gen : Nat, n : Nat]]
      /\ reader \in [Readers -> [pc : {"idle", "read", "keep"}, gen : Nat, h : Beats]]
  BY <1>1 DEF Init
<1>5. Shapes
  BY <1>1, <1>3, <1>4 DEF Init, Shapes
<1>6. AdminInv /\ BeatOfPaired /\ CacheCurrent
  BY DEF Init, AdminInv, BeatOfPaired, CacheCurrent
<1>7. SaverInv /\ ReaderInv
  BY <1>3 DEF SaverInv, ReaderInv
<1> QED
  BY <1>5, <1>6, <1>7 DEF IInv

\* The records a saver's steps make of its own.
LEMMA SaverUpdates ==
  ASSUME NEW r \in [pc : {"idle", "gen", "write", "remember"}, token : Nat, gen : Nat, n : Nat],
         NEW k \in Nat
  PROVE  /\ [r EXCEPT !.pc = "remember", !.n = k]
               \in [pc : {"idle", "gen", "write", "remember"}, token : Nat, gen : Nat, n : Nat]
         /\ [r EXCEPT !.pc = "write", !.gen = k]
               \in [pc : {"gen", "write", "idle"}, token : Nat, gen : Nat, n : Nat]
         /\ [r EXCEPT !.pc = "write", !.gen = k].gen <= k
<1>1. [r EXCEPT !.pc = "remember", !.n = k]
         \in [pc : {"idle", "gen", "write", "remember"}, token : Nat, gen : Nat, n : Nat]
  OBVIOUS
<1>2. [r EXCEPT !.pc = "write", !.gen = k]
         \in [pc : {"gen", "write", "idle"}, token : Nat, gen : Nat, n : Nat]
  OBVIOUS
<1>3. [r EXCEPT !.pc = "write", !.gen = k].gen <= k
  OBVIOUS
<1> QED
  BY <1>1, <1>2, <1>3

\* A pairing or an unpair: the row is emptied and the cache is yet to be dropped.
LEMMA RowEmptied ==
  ASSUME IInv, beat' = NoBeat, forgets' = forgets + 1,
         code' \in Nat, tokens' \subseteq Nat, paired' \in BOOLEAN,
         UNCHANGED <<issued, adminOK, beats, cacheVars, saver, reader>>
  PROVE  IInv'
<1>1. Shapes'
  BY DEF IInv, Shapes, Beats, NoBeat, cacheVars
<1>2. forgets' > 0 /\ AdminInv' /\ BeatOfPaired'
  BY DEF IInv, Shapes, AdminInv, BeatOfPaired
<1>3. SaverInv' /\ ReaderInv' /\ CacheCurrent'
  BY <1>2 DEF SaverInv, ReaderInv, CacheCurrent, Settling
<1> QED
  BY <1>1, <1>2, <1>3 DEF IInv

\* A step that leaves the row, the cache and the handlers alone.
LEMMA PairingOnly ==
  ASSUME IInv, code' \in Nat, issued' \in Nat, adminOK' \in BOOLEAN,
         adminOK' \/ AdminMoves,
         UNCHANGED <<tokens, paired, rowVars, cacheVars, forgets, saver, reader>>
  PROVE  IInv'
<1>1. Shapes' /\ AdminInv' /\ BeatOfPaired'
  BY DEF IInv, Shapes, AdminInv, BeatOfPaired, rowVars, cacheVars, NoBeat
<1>2. SaverInv' /\ ReaderInv' /\ CacheCurrent'
  BY DEF IInv, SaverInv, ReaderInv, CacheCurrent, Settling, rowVars, cacheVars, NoBeat
<1> QED
  BY <1>1, <1>2 DEF IInv

LEMMA ForgetInv == IInv /\ Forget => IInv'
<1> SUFFICES ASSUME IInv, Forget PROVE IInv'
  OBVIOUS
<1>1. /\ hbGen' = hbGen + 1 /\ fresh' = FALSE /\ hb' = NoBeat /\ forgets' = forgets - 1
      /\ forgets > 0 /\ UNCHANGED <<pairVars, rowVars, saver, reader>>
  BY DEF Forget, genAfterForget
<1>2. Shapes'
  <2>1. /\ \A s \in Savers : saver'[s].gen <= hbGen'
        /\ \A r \in Readers : reader'[r].gen <= hbGen'
    BY <1>1 DEF IInv, Shapes
  <2>2. forgets' \in Nat /\ hbGen' \in Nat
    BY <1>1 DEF IInv, Shapes
  <2>3. hb' \in Beats
    BY <1>1 DEF NoBeat, Beats
  <2>4. fresh' \in BOOLEAN
    BY <1>1
  <2> QED
    BY <1>1, <2>1, <2>2, <2>3, <2>4 DEF IInv, Shapes, pairVars, rowVars
<1>3. AdminInv' /\ BeatOfPaired' /\ CacheCurrent'
  BY <1>1 DEF IInv, AdminInv, BeatOfPaired, CacheCurrent, pairVars, rowVars, NoBeat
<1>4. /\ \A s \in Savers : saver'[s].gen # hbGen'
      /\ \A r \in Readers : reader'[r].gen # hbGen'
  BY <1>1 DEF IInv, Shapes
<1>5. SaverInv' /\ ReaderInv'
  BY <1>4 DEF SaverInv, ReaderInv
<1> QED
  BY <1>2, <1>3, <1>5 DEF IInv

\* A saver's step before its write: it carries nothing to the cache yet.
LEMMA SaverBegins ==
  ASSUME IInv, NEW s \in Savers, NEW new \in [pc : {"gen", "write", "idle"}, token : Nat, gen : Nat, n : Nat],
         saver[s].pc # "remember", new.gen <= hbGen,
         saver' = [saver EXCEPT ![s] = new],
         UNCHANGED <<pairVars, rowVars, cacheVars, forgets, reader>>
  PROVE  IInv'
<1>1. /\ saver'[s] = new /\ \A o \in Savers \ {s} : saver'[o] = saver[o]
      /\ saver' \in [Savers -> [pc : {"idle", "gen", "write", "remember"},
                                token : Nat, gen : Nat, n : Nat]]
  BY DEF IInv, Shapes
<1>2. Shapes'
  BY <1>1 DEF IInv, Shapes, pairVars, rowVars, cacheVars
<1>3. AdminInv' /\ BeatOfPaired'
  BY DEF IInv, AdminInv, BeatOfPaired, pairVars, rowVars
<1>4. \A o \in Savers : saver'[o].pc = "remember" <=> saver[o].pc = "remember"
  BY <1>1
<1>5. SaverInv'
  BY <1>1, <1>4 DEF IInv, SaverInv, rowVars, cacheVars
<1>6. ReaderInv' /\ CacheCurrent'
  BY <1>4 DEF IInv, ReaderInv, CacheCurrent, Settling, rowVars, cacheVars, NoBeat
<1> QED
  BY <1>2, <1>3, <1>5, <1>6 DEF IInv

LEMMA WriteBeatInv == ASSUME IInv, NEW s \in Savers, WriteBeat(s) PROVE IInv'
<1>1. CASE ~BeatAccepted(saver[s].token)
  <2>1. [saver[s] EXCEPT !.pc = "idle"] \in [pc : {"gen", "write", "idle"}, token : Nat, gen : Nat, n : Nat]
    BY DEF IInv, Shapes
  <2>2. [saver[s] EXCEPT !.pc = "idle"].gen <= hbGen /\ saver[s].pc # "remember"
    BY DEF IInv, Shapes, WriteBeat
  <2> QED
    BY <1>1, <2>1, <2>2, SaverBegins DEF WriteBeat
<1>2. CASE BeatAccepted(saver[s].token)
  <2> DEFINE new == [saver[s] EXCEPT !.pc = "remember", !.n = beats + 1]
  <2>1. /\ beat' = [token |-> saver[s].token, n |-> beats + 1] /\ beats' = beats + 1
        /\ saver' = [saver EXCEPT ![s] = new]
        /\ UNCHANGED <<pairVars, cacheVars, forgets, reader>>
    BY <1>2 DEF WriteBeat
  <2>2. /\ saver'[s] = new /\ \A o \in Savers \ {s} : saver'[o] = saver[o]
        /\ new.pc = "remember" /\ new.gen = saver[s].gen
        /\ new.token = saver[s].token /\ new.n = beats + 1
    BY <2>1 DEF IInv, Shapes
  <2>8. new \in [pc : {"idle", "gen", "write", "remember"}, token : Nat, gen : Nat, n : Nat]
    <3>1. /\ saver[s] \in [pc : {"idle", "gen", "write", "remember"},
                            token : Nat, gen : Nat, n : Nat]
          /\ beats + 1 \in Nat
      BY DEF IInv, Shapes
    <3> QED
      BY <3>1, SaverUpdates
  <2> HIDE DEF new
  <2>9. saver' \in [Savers -> [pc : {"idle", "gen", "write", "remember"},
                              token : Nat, gen : Nat, n : Nat]]
    BY <2>1, <2>8 DEF IInv, Shapes
  <2>3. Shapes'
    BY <2>1, <2>2, <2>9 DEF IInv, Shapes, pairVars, cacheVars, Beats
  <2>4. AdminInv' /\ BeatOfPaired'
    BY <1>2, <2>1 DEF IInv, AdminInv, BeatOfPaired, BeatAccepted, BridgeTokenLive, pairVars
  <2>5. Settling'
    BY <2>2 DEF Settling
  <2>6. ReaderInv' /\ CacheCurrent'
    BY <2>5 DEF ReaderInv, CacheCurrent
  <2>7. SaverInv'
    BY <2>1, <2>2 DEF SaverInv
  <2> QED
    BY <2>3, <2>4, <2>6, <2>7 DEF IInv
<1> QED
  BY <1>1, <1>2

LEMMA RememberInv == ASSUME IInv, NEW s \in Savers, remember(s) PROVE IInv'
<1> DEFINE new == [saver[s] EXCEPT !.pc = "idle"]
           mine == [token |-> saver[s].token, n |-> saver[s].n]
<1>1. /\ saver' = [saver EXCEPT ![s] = new] /\ hbGen' = hbGen + 1
      /\ saver[s].pc = "remember"
      /\ UNCHANGED <<pairVars, rowVars, forgets, reader>>
  BY DEF remember
<1>2. /\ hbGen = saver[s].gen => hb' = mine /\ fresh' = TRUE
      /\ hbGen # saver[s].gen => hb' = NoBeat /\ fresh' = FALSE
  BY DEF remember, Overtaken
<1>3. /\ saver'[s] = new /\ \A o \in Savers \ {s} : saver'[o] = saver[o]
      /\ new.pc = "idle" /\ new.gen = saver[s].gen
      /\ saver' \in [Savers -> [pc : {"idle", "gen", "write", "remember"},
                                token : Nat, gen : Nat, n : Nat]]
  BY <1>1 DEF IInv, Shapes
<1>4. mine \in Beats /\ NoBeat \in Beats
  BY DEF IInv, Shapes, Beats, NoBeat
<1> HIDE DEF new, mine
<1>5. Shapes'
  <2>1. hb' \in Beats /\ fresh' \in BOOLEAN
    BY <1>2, <1>4
  <2>3. hbGen' \in Nat
    BY <1>1 DEF IInv, Shapes
  <2>2. /\ \A o \in Savers : saver'[o].gen <= hbGen'
        /\ \A r \in Readers : reader'[r].gen <= hbGen'
    BY <1>1, <1>3 DEF IInv, Shapes
  <2> QED
    BY <1>1, <1>3, <2>1, <2>2, <2>3 DEF IInv, Shapes, pairVars, rowVars
<1>6. AdminInv' /\ BeatOfPaired'
  BY <1>1 DEF IInv, AdminInv, BeatOfPaired, pairVars, rowVars
<1>7. /\ \A o \in Savers : saver'[o].gen # hbGen'
      /\ \A r \in Readers : reader'[r].gen # hbGen'
  BY <1>1, <1>3 DEF IInv, Shapes
<1>8. SaverInv' /\ ReaderInv'
  BY <1>7 DEF SaverInv, ReaderInv
<1>9. CacheCurrent'
  <2> SUFFICES ASSUME fresh', ~Settling' PROVE hb' = beat'
    BY DEF CacheCurrent
  <2>1. hbGen = saver[s].gen /\ hb' = mine
    BY <1>2
  <2>2. ~(forgets > 0) /\ \A o \in Savers \ {s} : saver[o].pc # "remember"
    BY <1>1, <1>3 DEF Settling
  <2>3. beat = mine
    BY <1>1, <2>1, <2>2 DEF IInv, SaverInv, mine
  <2> QED
    BY <1>1, <2>1, <2>3 DEF rowVars
<1> QED
  BY <1>5, <1>6, <1>8, <1>9 DEF IInv

\* A reader's step up to its read.
LEMMA ReaderReads ==
  ASSUME IInv, NEW r \in Readers, NEW new \in [pc : {"read", "keep"}, gen : Nat, h : Beats],
         new.gen <= hbGen,
         new.pc = "keep" => new.h = beat \/ (AdminMoves /\ new.h = NoBeat),
         reader' = [reader EXCEPT ![r] = new],
         UNCHANGED <<pairVars, rowVars, cacheVars, forgets, saver>>
  PROVE  IInv'
<1>1. /\ reader'[r] = new /\ \A o \in Readers \ {r} : reader'[o] = reader[o]
      /\ reader' \in [Readers -> [pc : {"idle", "read", "keep"}, gen : Nat, h : Beats]]
  BY DEF IInv, Shapes
<1>2. Shapes'
  BY <1>1 DEF IInv, Shapes, pairVars, rowVars, cacheVars
<1>3. AdminInv' /\ BeatOfPaired' /\ SaverInv' /\ CacheCurrent'
  BY DEF IInv, AdminInv, BeatOfPaired, SaverInv, CacheCurrent, Settling,
         pairVars, rowVars, cacheVars, NoBeat
<1>4. ReaderInv'
  BY <1>1 DEF IInv, ReaderInv, Settling, rowVars, cacheVars, NoBeat
<1> QED
  BY <1>2, <1>3, <1>4 DEF IInv

LEMMA ReadInv == ASSUME IInv, NEW r \in Readers, readHeartbeat(r) PROVE IInv'
<1> DEFINE h == IF paired /\ tokens # {} /\ adminOK THEN beat ELSE NoBeat
           new == [reader[r] EXCEPT !.pc = "keep", !.h = h]
<1>1. h = beat \/ (AdminMoves /\ h = NoBeat)
  BY DEF IInv, AdminInv, BeatOfPaired
<1>2. h \in Beats
  BY DEF IInv, Shapes, Beats, NoBeat
<1>3. reader' = [reader EXCEPT ![r] = new]
  BY DEF readHeartbeat
<1> HIDE DEF h
<1>4. /\ new \in [pc : {"read", "keep"}, gen : Nat, h : Beats]
      /\ new.gen <= hbGen /\ new.h = h
  BY <1>2 DEF IInv, Shapes
<1> HIDE DEF new
<1> QED
  BY <1>1, <1>3, <1>4, ReaderReads DEF readHeartbeat

LEMMA KeepInv == ASSUME IInv, NEW r \in Readers, keep(r) PROVE IInv'
<1> DEFINE new == [reader[r] EXCEPT !.pc = "idle"]
<1>1. /\ reader' = [reader EXCEPT ![r] = new] /\ reader[r].pc = "keep"
      /\ UNCHANGED <<pairVars, rowVars, hbGen, forgets, saver>>
      /\ hbGen = reader[r].gen => hb' = reader[r].h /\ fresh' = TRUE
      /\ hbGen # reader[r].gen => UNCHANGED <<hb, fresh>>
  BY DEF keep
<1>2. /\ reader'[r] = new /\ \A o \in Readers \ {r} : reader'[o] = reader[o]
      /\ new.pc = "idle" /\ new.gen = reader[r].gen
      /\ reader' \in [Readers -> [pc : {"idle", "read", "keep"}, gen : Nat, h : Beats]]
  BY <1>1 DEF IInv, Shapes
<1> HIDE DEF new
<1>3. Shapes'
  <2>1. hb' \in Beats /\ fresh' \in BOOLEAN
    BY <1>1 DEF IInv, Shapes
  <2> QED
    BY <1>1, <1>2, <2>1 DEF IInv, Shapes, pairVars, rowVars
<1>4. AdminInv' /\ BeatOfPaired' /\ SaverInv'
  BY <1>1 DEF IInv, AdminInv, BeatOfPaired, SaverInv, pairVars, rowVars, NoBeat
<1>5. ReaderInv'
  BY <1>1, <1>2 DEF IInv, ReaderInv, Settling, rowVars, NoBeat
<1>6. CacheCurrent'
  BY <1>1 DEF IInv, ReaderInv, CacheCurrent, Settling, rowVars, NoBeat
<1> QED
  BY <1>3, <1>4, <1>5, <1>6 DEF IInv

LEMMA NextInv == IInv /\ [Next]_vars => IInv'
<1> SUFFICES ASSUME IInv, [Next]_vars PROVE IInv'
  OBVIOUS
<1>1. CASE IssueBridgePairCode
  BY <1>1, PairingOnly DEF IssueBridgePairCode, IInv, Shapes, AdminInv
<1>2. CASE CodeExpires
  BY <1>2, PairingOnly DEF CodeExpires, IInv, Shapes, AdminInv
<1>3. ASSUME NEW c \in Codes, ExchangeBridgeCode(c) PROVE IInv'
  BY <1>3, RowEmptied DEF ExchangeBridgeCode, codeAfterExchange, tokensAfterExchange, Codes
<1>4. CASE UnpairBridge
  BY <1>4, RowEmptied DEF UnpairBridge
<1>5. CASE Forget
  BY <1>5, ForgetInv
<1>6. CASE AdminChanges
  BY <1>6, PairingOnly DEF AdminChanges, IInv, Shapes, pairVars
<1>7. ASSUME NEW s \in Savers, NEW t \in Codes, Authenticate(s, t) PROVE IInv'
  <2> DEFINE new == [pc |-> "gen", token |-> t, gen |-> 0, n |-> 0]
  <2>1. new \in [pc : {"gen", "write", "idle"}, token : Nat, gen : Nat, n : Nat] /\ new.gen <= hbGen
    BY DEF Codes, IInv, Shapes
  <2> QED
    BY <1>7, <2>1, SaverBegins DEF Authenticate
<1>8. ASSUME NEW s \in Savers, heartbeatGen(s) PROVE IInv'
  <2> DEFINE new == [saver[s] EXCEPT !.pc = "write", !.gen = hbGen]
  <2>1. saver[s] \in [pc : {"idle", "gen", "write", "remember"}, token : Nat, gen : Nat, n : Nat]
        /\ hbGen \in Nat
    BY DEF IInv, Shapes
  <2>2. new \in [pc : {"gen", "write", "idle"}, token : Nat, gen : Nat, n : Nat] /\ new.gen <= hbGen
    BY <2>1, SaverUpdates
  <2> HIDE DEF new
  <2>3. saver' = [saver EXCEPT ![s] = new] /\ saver[s].pc # "remember"
    BY <1>8 DEF heartbeatGen, new
  <2> QED
    BY <1>8, <2>2, <2>3, SaverBegins DEF heartbeatGen
<1>9. ASSUME NEW s \in Savers, WriteBeat(s) \/ remember(s) PROVE IInv'
  BY <1>9, WriteBeatInv, RememberInv
<1>10. ASSUME NEW r \in Readers, LastHeartbeat(r) PROVE IInv'
  <2> DEFINE new == [pc |-> "read", gen |-> hbGen, h |-> NoBeat]
  <2>1. new \in [pc : {"read", "keep"}, gen : Nat, h : Beats] /\ new.gen <= hbGen /\ new.pc # "keep"
    BY DEF IInv, Shapes, Beats, NoBeat
  <2> QED
    BY <1>10, <2>1, ReaderReads DEF LastHeartbeat
<1>11. ASSUME NEW r \in Readers, readHeartbeat(r) \/ keep(r) PROVE IInv'
  BY <1>11, ReadInv, KeepInv
<1>12. CASE CacheAges
  BY <1>12 DEF CacheAges, IInv, Shapes, AdminInv, BeatOfPaired, SaverInv, ReaderInv,
         CacheCurrent, Settling, pairVars, rowVars, NoBeat
<1>13. CASE UNCHANGED vars
  BY <1>13 DEF vars, IInv, Shapes, AdminInv, BeatOfPaired, SaverInv, ReaderInv,
         CacheCurrent, Settling, pairVars, rowVars, cacheVars, NoBeat
<1> QED
  BY <1>1, <1>2, <1>3, <1>4, <1>5, <1>6, <1>7, <1>8, <1>9, <1>10, <1>11, <1>12, <1>13
     DEF Next

-----------------------------------------------------------------------------

\* What every handler carries agrees with the row and the cache's generation.
THEOREM Inductive == Spec => []IInv
BY InitInv, NextInv, PTL DEF Spec

\* The stored heartbeat is always the paired Bridge's (SaveHeartbeat's update
\* checks the token in its own statement).
THEOREM BeatsArePaired == Spec => []BeatOfPaired
<1>1. IInv => BeatOfPaired
  BY DEF IInv
<1> QED
  BY <1>1, Inductive, PTL

\* A settled, fresh cache is what the row says, for any number of saves, reads,
\* pairings and unpairs in any order (remember, keep, Forget).
THEOREM CacheIsCurrent == Spec => []CacheCurrent
<1>1. IInv => CacheCurrent
  BY DEF IInv
<1> QED
  BY <1>1, Inductive, PTL
=============================================================================
