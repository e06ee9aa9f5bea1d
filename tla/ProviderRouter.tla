--------------------------- MODULE ProviderRouter ---------------------------
(***************************************************************************)
(* The provider router: packages/providers, router.py and the adapters.    *)
(*                                                                         *)
(* An agent asks for one structured answer; the router tries the vendors   *)
(* of the role's chain in order until one gives it, and writes a usage row *)
(* for every attempt.  Several calls of one file are under way at a time.  *)
(***************************************************************************)
EXTENDS Naturals, Sequences, FiniteSets, SequencesExt, Orders

CONSTANTS
    Calls,          \* the awaits of complete() that may be under way
    KeySets         \* the sets of vendors an installation may have keys for

Vendors == {"openai", "gemini", "anthropic"}

ASSUME KeySetsAssumption == KeySets \subseteq (SUBSET Vendors) \ {{}}

VARIABLES
    configured,     \* the vendors with a key: from_settings
    call            \* the state of each call

DefaultRoutes ==
    [reader     |-> <<"openai", "gemini">>,
     writer     |-> <<"openai", "gemini", "anthropic">>,
     improver   |-> <<"anthropic", "openai">>,
     verifier   |-> <<"anthropic", "openai">>,
     summarizer |-> <<"openai", "gemini">>]

Roles == DOMAIN DefaultRoutes

\* The vendors of the role that have a key; without one, those of the writer.
ResolveChain(role) ==
    LET Available(chain) == At(chain, {i \in DOMAIN chain : chain[i] \in configured})
        own              == Available(DefaultRoutes[role])
    IN  IF own # <<>> THEN own ELSE Available(DefaultRoutes["writer"])

NoCall == [role |-> "reader", state |-> "idle", attempt |-> 0,
           succeeded |-> 0, failed |-> 0]

RouterInit ==
    /\ configured \in KeySets
    /\ call = [c \in Calls |-> NoCall]

-----------------------------------------------------------------------------
(* What comes back from a vendor, and what its adapter makes of it.        *)

\* The text of an answer, usable or not, a refusal, or no answer at all: a
\* timeout is a connection error.
Replies == {"valid", "wrapped", "unusable", "refusal", "rate_limit", "connection", "status"}

\* parse_model_json: fences and prose around one object are tolerated.
Parsed(reply) == reply \in {"valid", "wrapped"}

\* OpenAI and Anthropic, by the parsing helper of their SDKs: the class of what
\* the adapter returns or raises.
WithHelper(reply) ==
    CASE Parsed(reply)        -> "value"
      [] reply = "rate_limit" -> "ProviderRateLimitError"
      [] OTHER                -> "ProviderError"

\* An SDK without the helper is asked in JSON mode, whose errors nothing
\* translates.
WithoutHelper(reply) ==
    CASE Parsed(reply)                                   -> "value"
      [] reply \in {"rate_limit", "connection", "status"} -> "Exception"
      [] OTHER                                           -> "ProviderError"

\* Of Gemini's SDK the errors with a status are translated, those of the
\* transport are not.
Gemini(reply) ==
    CASE Parsed(reply)        -> "value"
      [] reply = "rate_limit" -> "ProviderRateLimitError"
      [] reply = "connection" -> "Exception"
      [] OTHER                -> "ProviderError"

\* What complete() catches to go on with the chain; a cancellation it does not.
Caught == {"ProviderRateLimitError", "ProviderError", "Exception"}

-----------------------------------------------------------------------------
(* The rows of usage_records: one for each attempt.  A row is added to the *)
(* session of the job and lasts if that session is committed; the row of a *)
(* failure says no tokens and no cost, whatever the vendor has charged.    *)

Record(c) == [c EXCEPT !.succeeded = @ + 1]

\* Bug: the vendor that is passed over first leaves no row.
RecordFailureUnseen(c) == [c EXCEPT !.failed = IF c.attempt = 1 THEN @ ELSE @ + 1]

RecordFailure(c) == [c EXCEPT !.failed = @ + 1]

NextVendor(c) ==
    IF c.attempt < Len(ResolveChain(c.role))
    THEN [c EXCEPT !.attempt = @ + 1]
    ELSE [c EXCEPT !.state = "failed"]

-----------------------------------------------------------------------------

Asking(c) == call[c].state = "asking"
Answered(c) == call[c].state = "answered"
Failed(c) == call[c].state = "failed"
Ended(c) == Answered(c) \/ Failed(c)

\* The calls in starting are begun, and those in forgotten are read and gone:
\* call' for a step of the caller.
Calling(starting, forgotten, role) ==
    [c \in Calls |->
        IF c \in starting
        THEN [NoCall EXCEPT !.role = role[c], !.state = "asking", !.attempt = 1]
        ELSE IF c \in forgotten THEN NoCall ELSE call[c]]

\* What the attempt under way may come to, over all that a vendor may reply.
Outcomes(c) ==
    LET vendor == ResolveChain(call[c].role)[call[c].attempt]
    IN  IF vendor = "gemini" THEN {Gemini(reply) : reply \in Replies}
        ELSE UNION {{WithHelper(reply), WithoutHelper(reply)} : reply \in Replies}

\* A vendor answers and complete() returns.
Returns(c) ==
    /\ Asking(c)
    /\ "value" \in Outcomes(c)
    /\ call' = [call EXCEPT ![c] = [Record(@) EXCEPT !.state = "answered"]]
    /\ UNCHANGED configured

\* A vendor fails: its row is written, and the next one is asked.
FallsThrough(c) ==
    /\ Asking(c)
    /\ Outcomes(c) \cap Caught # {}
    /\ call' = [call EXCEPT ![c] = NextVendor(RecordFailure(@))]
    /\ UNCHANGED configured

-----------------------------------------------------------------------------

(* A call that has ended has left a row for every vendor it asked, and one *)
(* of them, the last, is a success exactly when it returned a value; a call *)
(* that failed has asked the whole chain.  usage_records is the base of    *)
(* the spending limits, so an answer without a row is spent unseen; of a   *)
(* failure the row tells that the vendor was asked, not what it cost.      *)
UsageTellsTheCalls ==
    \A c \in Calls :
        LET it == call[c] IN
        /\ Answered(c) => /\ it.succeeded = 1
                          /\ it.failed = it.attempt - 1
        /\ Failed(c)   => /\ it.succeeded = 0
                          /\ it.failed = Len(ResolveChain(it.role))
=============================================================================
