---------------------------- MODULE ToolRecovery ----------------------------
(***************************************************************************)
(* What an engine remembers of the tool calls that failed, and the state   *)
(* of recovery it derives from it.  Constant level: EngineTurn keeps one   *)
(* such record.  The counts of errors by type outlive the turn, the count  *)
(* of failures in a row does not.  A count stops where nothing looks       *)
(* further: 3 failures in a row, 2 errors of a type.                       *)
(***************************************************************************)
EXTENDS Integers

CONSTANTS
  Call,      \* tool calls: a tool and its arguments
  Discovery  \* those of ls, glob, read_file and project_map

ASSUME CallsAreCalls == Discovery \subseteq Call

RecoveryState == {"Normal", "ReanchorRequired", "SingleStepMode", "NeedUserGuidance"}

\* "Other" is every type of error that recovery does not look at, "Untyped" an
\* error without a type (an unknown tool, a tool that returned Err).
ErrorType == {"NotFound", "Validation", "Timeout", "Other", "Untyped"}

Recovery ==
  [fails : 0 .. 3, notFound : 0 .. 2, invalid : 0 .. 2, late : 0 .. 2,
   signed : BOOLEAN, state : RecoveryState]

\* signed: there is a last_failed_signature.
Calm == [fails |-> 0, notFound |-> 0, invalid |-> 0, late |-> 0, signed |-> FALSE,
         state |-> "Normal"]

UpTo(limit, n) == IF n < limit THEN n + 1 ELSE limit

\* Variant: a missing path asks for a new look around whatever else failed.
PathsFirst(r) ==
  IF r.notFound >= 2 THEN "ReanchorRequired"
  ELSE IF r.fails >= 3 THEN "NeedUserGuidance"
  ELSE IF r.invalid >= 2 \/ r.late >= 2 \/ r.fails >= 2 THEN "SingleStepMode"
  ELSE "Normal"

StateFor(r) ==
  IF r.fails >= 3 THEN "NeedUserGuidance"
  ELSE IF r.invalid >= 2 \/ r.late >= 2 \/ r.fails >= 2 THEN "SingleStepMode"
  ELSE IF r.notFound >= 2 THEN "ReanchorRequired"
  ELSE "Normal"

Updated(r) == [r EXCEPT !.state = StateFor(r)]

\* An error without a type counts as a failure and changes nothing else.
Failed(r, type) ==
  LET counted == [r EXCEPT !.fails = UpTo(3, @)]
      typed   == [counted EXCEPT !.signed = TRUE]
  IN  CASE type = "Untyped"    -> counted
        [] type = "NotFound"   -> Updated([typed EXCEPT !.notFound = UpTo(2, @)])
        [] type = "Validation" -> Updated([typed EXCEPT !.invalid = UpTo(2, @)])
        [] type = "Timeout"    -> Updated([typed EXCEPT !.late = UpTo(2, @)])
        [] type = "Other"      -> Updated(typed)

\* A success forgets everything; which tool it was makes no difference, since
\* without counts the state is Normal either way.
Succeeded(r, c) ==
  IF r.state = "ReanchorRequired" /\ c \in Discovery THEN Calm ELSE Updated(Calm)

\* A new turn forgets the failures in a row, not the counts and not the state.
NextTurn(r) == [r EXCEPT !.fails = 0]

\* The gate lets only a look around through.
GateRefuses(r, c) == r.state = "ReanchorRequired" /\ c \notin Discovery

\* After two failures in a row a call may be taken for the last one that failed
\* with a type.  The signatures that are compared are made of different forms of
\* the arguments, as received and as normalized: they may differ for the same
\* call, so that nothing but a signature is remembered here.
MayRepeat(r) == r.fails >= 2 /\ r.signed
=============================================================================
