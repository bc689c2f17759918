------------------------------- MODULE Redactor -------------------------------
(***************************************************************************)
(* The PII redactor of internal/compression/pii/redactor.go.  A text is a  *)
(* value of which only one thing matters: what each rule makes of it.      *)
(* Rules are kept in a Go map, so that each call of Redact applies them in *)
(* an order of its own, each to what the ones before have left.            *)
(***************************************************************************)
EXTENDS Integers, FiniteSets, Functions

CONSTANTS
  Rules,     \* the patterns NewRedactor compiles: email, phone, ssn, credit_card
  Rewrite    \* rule -> text -> pattern.ReplaceAllString(text, placeholder)

Detects(rule, text) == Rewrite[rule][text] # text

DetectPII(text) == {rule \in Rules : Detects(rule, text)}

\* `range r.patterns': each rule once.
Orders == Bijection(1..Cardinality(Rules), Rules)

\* Mutant: the first rule that matches ends the loop.
TurnsToFirst(order, text) ==
  LET result[i \in 0..Cardinality(Rules)] ==
        IF i = 0 THEN text
        ELSE IF result[i - 1] = text THEN Rewrite[order[i]][text] ELSE result[i - 1]
  IN  result

\* `result' before the loop and after each of its turns.
Turns(order, text) ==
  LET result[i \in 0..Cardinality(Rules)] ==
        IF i = 0 THEN text ELSE Rewrite[order[i]][result[i - 1]]
  IN  result

\* The texts Redact may return.
Redact(text) == {Turns(order, text)[Cardinality(Rules)] : order \in Orders}

\* Mutant: what was redacted is left out.
RedactDropping(variables) == {{entry \in variables : DetectPII(entry[2]) = {}}}

\* The maps RedactVariables may return; a map is the set of its entries <<key, value>>.
RedactVariables(variables) ==
  {{<<entry[1], f[entry]>> : entry \in variables} :
     f \in {g \in [variables -> UNION {Redact(entry[2]) : entry \in variables}] :
              \A entry \in variables : g[entry] \in Redact(entry[2])}}

\* The rule had its turn, and then the turn of another one laid bare what it detects in
\* the result: a@b.co5551234567 holds no phone number until its address is replaced.
LaidBare(rule, text, result) ==
  \E order \in Orders, i, j \in 1..Cardinality(Rules) :
    /\ Turns(order, text)[Cardinality(Rules)] = result
    /\ order[i] = rule /\ i < j
    /\ Detects(rule, Turns(order, text)[j]) /\ ~Detects(rule, Turns(order, text)[j - 1])
==============================================================================
