----------------------------- MODULE GlobCalls ------------------------------
(* Callers that match strings with patterns, and what they rely on.        *)
EXTENDS LibraryCall, GlobPattern

CONSTANTS GlobStrings, GlobPatterns
ASSUME GlobAssumption == GlobStrings \cup GlobPatterns \subseteq Strings

MatchPattern(s, p) == Call("globmatch", <<s, p>>, ms_globmatch(s, p))

GlobNext == call.op = "idle" /\ \E s \in GlobStrings, p \in GlobPatterns : MatchPattern(s, p)

GlobSpec == CallInit /\ [][GlobNext \/ Done]_call

(* ms_globmatch() goes back to the last star only and skips ahead to the   *)
(* literal after it; it decides as trying every way to match does.         *)
GlobMatchesMeaning == call.op = "globmatch" => call.val = Means(call.arg[1], call.arg[2])
=============================================================================
