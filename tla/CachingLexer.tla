---------------------------- MODULE CachingLexer ---------------------------
(***************************************************************************)
(* The token cache behind Lexer::LookAhead (CachingLexer.cpp and           *)
(* Lexer.cppm).  The lexer switches between two callbacks: the scanner     *)
(* itself and a reader of the cache.  Tokens are numbered in the order in  *)
(* which the scanner returns them.                                         *)
(*                                                                         *)
(* The flag IsCachingMode and the callback are set together except at the  *)
(* start, where the flag is set and the scanner is called; reset restores  *)
(* the callback but not the flag.                                          *)
(*                                                                         *)
(* No name of this module is one of Lexer, so that LexerProofs can extend  *)
(* both.                                                                   *)
(***************************************************************************)
EXTENDS Integers, Sequences

CONSTANTS
  Ahead,       \* the distances callers look ahead by
  MaxTokens    \* bounds how many tokens are scanned, for TLC

ASSUME AheadAssumption == Ahead \subseteq Nat
ASSUME MaxTokensAssumption == MaxTokens \in Nat

VARIABLES
  scanned,          \* tokens the scanner has returned so far
  cachedTokens,     \* CachedTokens
  cachedTokenPos,   \* CachedTokenPos
  isCachingMode,    \* IsCachingMode
  callback,         \* CurLexerCallback
  lexed,            \* the token lex returned last
  peeked            \* the token LookAhead returned last

cacheVars == <<scanned, cachedTokens, cachedTokenPos, isCachingMode, callback,
               lexed, peeked>>

CacheInit ==
  /\ scanned = 0 /\ cachedTokens = <<>> /\ cachedTokenPos = 0
  /\ isCachingMode = TRUE /\ callback = "scanner"
  /\ lexed = 0 /\ peeked = 0

EnterCachingMode == isCachingMode' = TRUE  /\ callback' = "cache"
ExitCachingMode  == isCachingMode' = FALSE /\ callback' = "scanner"

-----------------------------------------------------------------------------
\* lex with the scanner as callback.
LexRaw ==
  /\ callback = "scanner" /\ scanned < MaxTokens
  /\ lexed' = scanned + 1 /\ scanned' = scanned + 1
  /\ UNCHANGED <<cachedTokens, cachedTokenPos, isCachingMode, callback, peeked>>

\* lex with the cache as callback; it returns without setting the token if the
\* flag says that the cache is not in use.
LexCached ==
  /\ callback = "cache"
  /\ ~isCachingMode \/ cachedTokenPos < Len(cachedTokens)
  /\ IF isCachingMode
     THEN /\ lexed' = cachedTokens[cachedTokenPos + 1]
          /\ cachedTokenPos' = cachedTokenPos + 1
     ELSE UNCHANGED <<lexed, cachedTokenPos>>
  /\ UNCHANGED <<scanned, cachedTokens, isCachingMode, callback, peeked>>

\* The cache is used up: it is dropped, and the scanner is called again.
LexPastCache ==
  /\ callback = "cache" /\ isCachingMode
  /\ cachedTokenPos >= Len(cachedTokens) /\ scanned < MaxTokens
  /\ lexed' = scanned + 1 /\ scanned' = scanned + 1
  /\ cachedTokenPos' = 0 /\ cachedTokens' = <<>>
  /\ ExitCachingMode
  /\ UNCHANGED peeked

\* Mutant: counted from the start of the cache.
LookFromStart(n) ==
  /\ cachedTokenPos + n < Len(cachedTokens)
  /\ peeked' = cachedTokens[n + 1]
  /\ UNCHANGED <<scanned, cachedTokens, cachedTokenPos, isCachingMode,
                 callback, lexed>>

\* LookAhead at a token that is cached.
LookInCache(n) ==
  /\ cachedTokenPos + n < Len(cachedTokens)
  /\ peeked' = cachedTokens[cachedTokenPos + n + 1]
  /\ UNCHANGED <<scanned, cachedTokens, cachedTokenPos, isCachingMode,
                 callback, lexed>>

\* Mutant: one token more than is missing.
PeekFurther(m) ==
  LET missing == cachedTokenPos + m - Len(cachedTokens) + 1
      fresh   == [i \in 1 .. missing |-> scanned + i] IN
  /\ scanned + missing <= MaxTokens
  /\ cachedTokens' = cachedTokens \o fresh
  /\ scanned' = scanned + missing
  /\ peeked' = cachedTokens'[Len(cachedTokens') - 1]
  /\ EnterCachingMode
  /\ UNCHANGED <<cachedTokenPos, lexed>>

\* PeekAhead(m): scan until m tokens are cached from the position on.
PeekAhead(m) ==
  LET missing == cachedTokenPos + m - Len(cachedTokens)
      fresh   == [i \in 1 .. missing |-> scanned + i] IN
  /\ scanned + missing <= MaxTokens
  /\ cachedTokens' = cachedTokens \o fresh
  /\ scanned' = scanned + missing
  /\ peeked' = cachedTokens'[Len(cachedTokens')]
  /\ EnterCachingMode
  /\ UNCHANGED <<cachedTokenPos, lexed>>

LookPastCache(n) ==
  /\ cachedTokenPos + n >= Len(cachedTokens)
  /\ PeekAhead(n + 1)

\* Mutant: the cache outlives the scanner's return to the start.
ResetScanner ==
  /\ scanned' = 0 /\ callback' = "scanner"
  /\ UNCHANGED <<cachedTokens, cachedTokenPos, isCachingMode, lexed, peeked>>

\* Lexer::reset puts the scanner back to the first character.
Reset ==
  /\ scanned' = 0 /\ cachedTokens' = <<>> /\ cachedTokenPos' = 0
  /\ callback' = "scanner"
  /\ UNCHANGED <<isCachingMode, lexed, peeked>>

CacheNext ==
  \/ LexRaw \/ LexCached \/ LexPastCache
  \/ \E n \in Ahead : LookInCache(n) \/ LookPastCache(n)
  \/ Reset

CacheSpec == CacheInit /\ [][CacheNext]_cacheVars

-----------------------------------------------------------------------------
(* Properties.                                                             *)

CacheTypeOK ==
  /\ scanned \in Nat
  /\ cachedTokens \in Seq(Nat)
  /\ cachedTokenPos \in Nat
  /\ isCachingMode \in BOOLEAN
  /\ callback \in {"scanner", "cache"}
  /\ lexed \in Nat /\ peeked \in Nat

\* The cache holds the tokens scanned last, in order, without a gap, and the
\* position is inside it: nothing is lost or repeated when modes change.
CacheIsTailOfStream ==
  /\ cachedTokenPos <= Len(cachedTokens)
  /\ Len(cachedTokens) <= scanned
  /\ \A i \in 1 .. Len(cachedTokens) :
        cachedTokens[i] = scanned - Len(cachedTokens) + i

\* A cached token can only be passed over if the scanner is called while the
\* cache is in use; and lex leaves its argument unset if the cache is called
\* while the flag is off (CachingLexer.cpp:28).
ModesAgree ==
  /\ callback = "scanner" => cachedTokens = <<>> /\ cachedTokenPos = 0
  /\ callback = "cache" => isCachingMode

\* The scanner reports errors as it scans, so a token looked at too early puts
\* its error before those of the parser: it is never further ahead of the
\* caller than some LookAhead asked for.
ScansNoFurtherThanAsked ==
  \/ cachedTokenPos = Len(cachedTokens)
  \/ \E n \in Ahead : Len(cachedTokens) - cachedTokenPos <= n + 1

\* The inductive invariant.
CacheInv ==
  CacheTypeOK /\ CacheIsTailOfStream /\ ModesAgree /\ ScansNoFurtherThanAsked

\* The tokens the caller has taken: those scanned, less those still cached.
Taken == scanned - (Len(cachedTokens) - cachedTokenPos)

Lookahead == INSTANCE LookaheadStream WITH consumed <- Taken, tok <- lexed

\* The caller sees every token once and in order however lex, LookAhead and
\* reset alternate, and looking ahead shows the token that will come.
ImplementsLookahead == Lookahead!Spec
=============================================================================
