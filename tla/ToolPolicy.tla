----------------------------- MODULE ToolPolicy -----------------------------
(***************************************************************************)
(* What tool_gate says of one call before any runtime state is consulted   *)
(* (internal/config/config.go, tool_policy.go, internal/validate): which   *)
(* rules are accepted, what an argument must satisfy, what the pin of the  *)
(* tool's definition is, what the rules decide.  A rule constrains one     *)
(* argument.  A value has the spelling the JSON carries and, when it is a  *)
(* number, that number; an optional setting is a set with at most one      *)
(* element; `matches` holds the spellings that satisfy one_of, glob and    *)
(* regex.                                                                  *)
(***************************************************************************)
EXTENDS Integers, FiniteSets

CONSTANTS
    Spellings,       \* argument values as they are written
    Definitions,     \* tool definitions, told apart by their canonical hash
    NoDefinition     \* none sent, none read

Risks == {"low", "normal", "high", "high, padded"}

Value == [present : BOOLEAN, spell : Spellings, num : SUBSET Int]

\* tool_gate.tools[i]; wellFormed: names, patterns and the pin's spelling parse.
Rule == [risk : Risks, requireApproval : BOOLEAN, denyMismatch : BOOLEAN,
         rememberApproval : BOOLEAN, allowGrants : BOOLEAN, wellFormed : BOOLEAN,
         equals : SUBSET Value, matches : SUBSET Spellings, optional : BOOLEAN,
         min : SUBSET Int, max : SUBSET Int, reviewAbove : SUBSET Int, maxPerDay : SUBSET Int,
         maxCalls : SUBSET Int, hash : SUBSET Definitions, definitionFile : BOOLEAN]

-----------------------------------------------------------------------------
\* A rule compares the risk with the spaces around it cut off ...
RiskOf(r) == IF r.risk = "high, padded" THEN "high" ELSE r.risk

Grantable(r) == r.allowGrants /\ RiskOf(r) # "high"

\* Mutant: validate lets a high-risk tool through unapproved.
HighRiskUnchecked(r) == TRUE

\* ... and validate compares it as it is written.
HighRiskOk(r) == r.risk = "high" =>
    r.requireApproval /\ ~r.rememberApproval /\ ~r.allowGrants

\* checkToolGate and checkArgConstraints: the findings that are errors.
RuleOk(r) ==
    /\ r.wellFormed /\ HighRiskOk(r)
    /\ \A m \in r.maxCalls : m >= 1
    /\ \A m \in r.maxPerDay : m >= 0
    /\ \A lo \in r.min, hi \in r.max : lo <= hi
    /\ \A ra \in r.reviewAbove, hi \in r.max : ra < hi
    /\ ~(r.hash # {} /\ r.definitionFile)

-----------------------------------------------------------------------------
Numeric(r) == r.min \cup r.max \cup r.reviewAbove \cup r.maxPerDay # {}

\* ArgConstraint.Check: the conditions the value fails.
Failing(r, v) ==
    IF ~v.present THEN {x \in {"missing"} : ~r.optional}
    ELSE {x \in {"equals"}   : \E e \in r.equals : v.spell # e.spell}
    \cup {x \in {"matches"}  : v.spell \notin r.matches}
    \cup {x \in {"number"}   : Numeric(r) /\ v.num = {}}
    \cup {x \in {"max"}      : \E n \in v.num, m \in r.max : n > m}
    \cup {x \in {"min"}      : \E n \in v.num, m \in r.min : n < m}
    \cup {x \in {"negative"} : r.maxPerDay # {} /\ \E n \in v.num : n < 0}

Review(r, v) == \E n \in v.num, m \in r.reviewAbove : n > m

\* What the call adds to the running totals, whatever its arguments are: the
\* number under max_per_day, and one call under max_calls_per_day.
CappedAmounts(r, v) ==
    [arg   |-> IF r.maxPerDay # {} /\ v.num # {} THEN CHOOSE n \in v.num : TRUE ELSE 0,
     calls |-> IF r.maxCalls # {} THEN 1 ELSE 0]

\* Mutant: what the call itself adds is not looked at.
OverAlready(r, v, total, count) ==
    \/ \E n \in v.num, m \in r.maxPerDay : total > m
    \/ \E m \in r.maxCalls : count > m

\* ReadDailyCaps: the call would take a total past its cap.
Over(r, v, total, count) ==
    \/ \E n \in v.num, m \in r.maxPerDay : total + n > m
    \/ \E m \in r.maxCalls : count + 1 > m

-----------------------------------------------------------------------------
\* The definition a rule is pinned to, if any: that of definition_sha256, or
\* the one read from definition_file.
Pin(r, pinned) == IF r.hash # {} THEN r.hash ELSE IF r.definitionFile THEN {pinned} ELSE {}

MatchToolDefinition(r, pinned, d) ==
    IF r.definitionFile
    THEN r.hash = {} /\ pinned # NoDefinition /\ d = pinned
    ELSE r.hash = {} \/ d \in r.hash

\* Mutant: the policy hash leaves out what the definition file holds.
PolicyWithoutPin(rules, pinned) == rules

\* hashToolPolicy: a pin hashes as what it pins, wherever it is written.
Policy(rules, pinned) ==
    {[r EXCEPT !.hash = Pin(r, pinned), !.definitionFile = FALSE] : r \in rules}

Mismatch(r, pinned, v, d) == Failing(r, v) # {} \/ ~MatchToolDefinition(r, pinned, d)

\* Why a call is not simply allowed, in the order the rules are read.
Why(r, pinned, v, d, over, review) ==
    IF Failing(r, v) # {} THEN "args"
    ELSE IF ~MatchToolDefinition(r, pinned, d) THEN "definition"
    ELSE IF over THEN "cap" ELSE IF review THEN "review" ELSE "none"

Unlisted == [decision |-> "deny", why |-> "unlisted", grantable |-> FALSE]

\* Whether the value is to be reviewed; not looked at when a human is asked
\* anyway.
Reviewed(r, v) == ~r.requireApproval /\ Review(r, v)

\* evaluateToolPolicy: what is not listed is denied; a mismatch or a total past
\* its cap is refused or asked; what requires approval or lies above
\* review_above is asked; a grant may answer only what asks by require_approval
\* alone.
Evaluate(rules, pinned, v, d, total, count) ==
    IF rules = {} THEN Unlisted
    ELSE LET r      == CHOOSE x \in rules : TRUE
             over   == ~Mismatch(r, pinned, v, d) /\ Over(r, v, total, count)
             strict == Mismatch(r, pinned, v, d) \/ over
         IN  [decision  |-> IF strict /\ r.denyMismatch THEN "deny"
                            ELSE IF strict \/ r.requireApproval \/ Reviewed(r, v) THEN "ask"
                            ELSE "allow",
              why       |-> Why(r, pinned, v, d, over, Reviewed(r, v)),
              grantable |-> r.requireApproval /\ ~strict /\ Grantable(r)]

=============================================================================
