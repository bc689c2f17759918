------------------------------ MODULE Compression -----------------------------
(***************************************************************************)
(* The compression service of cmd/compression/main.go: CompressLog mines   *)
(* the template of a line and redacts the variables, one by one.  The      *)
(* template is stored as it is: it is up to the miner that no token of it  *)
(* is personal data.  Nobody redacts the line: what is spread over several *)
(* of its tokens is seen by no rule.                                       *)
(***************************************************************************)
EXTENDS Integers, Sequences, FiniteSets

CONSTANTS
  Word, Variable, Wild, Logs, Timestamps, MaxDepth, SimNum, SimDen,
  Hash(_), NoID, MaxParses,   \* of DrainTree
  Rules, Rewrite,             \* of Redactor
  Texts,                      \* what a variable is, and what redaction may make of it
  Spread                      \* phone numbers and cards written with spaces, as tokens

VARIABLES
  heap, clusters, tree, parsed,   \* of DrainTree
  stored                          \* the results CompressLog returned, with the lines

Miner    == INSTANCE DrainTree
Redactor == INSTANCE Redactor

RawTokens == Word \cup Variable \cup {Wild}

\* The assumptions of the miner about its configuration, its tokens and its hash.
ASSUME MinerAssumption ==
  /\ MaxDepth \in Nat \ {0}
  /\ SimNum \in Nat /\ SimDen \in Nat \ {0} /\ SimNum <= SimDen
  /\ MaxParses \in Nat
  /\ Wild \notin Word \cup Variable
  /\ Word \cap Variable = {}
  /\ Logs \subseteq Seq(RawTokens)
  /\ \A l, m \in Logs : Hash(Miner!Preprocess(l)) = Hash(Miner!Preprocess(m))
                          => Miner!Preprocess(l) = Miner!Preprocess(m)
  /\ \A l \in Logs : Hash(Miner!Preprocess(l)) # NoID

\* A placeholder completes no match of the rule it stands for: the brackets around it
\* belong to no pattern, so that a second pass of the same rule finds nothing new.  And
\* each token a rule of the default configuration matches holds an address or a number
\* between word boundaries, which isVariable matches too.
ASSUME RulesAssumption ==
  /\ IsFiniteSet(Rules)
  /\ RawTokens \subseteq Texts
  /\ Rewrite \in [Rules -> [Texts -> Texts]]
  /\ \A rule \in Rules, text \in Texts : ~Redactor!Detects(rule, Rewrite[rule][text])
  /\ \A token \in Word \cup {Wild} : Redactor!DetectPII(token) = {}

\* The patterns for phones and cards match spaces, strings.Fields does not keep them: what
\* they match in a line may be several tokens, each of which is just a few digits.
ASSUME SpreadAssumption ==
  /\ Spread \subseteq Seq(RawTokens)
  /\ \A stretch \in Spread : \A k \in DOMAIN stretch : Redactor!DetectPII(stretch[k]) = {}

compressionVars == <<heap, clusters, tree, parsed, stored>>

CompressionInit == Miner!Init /\ stored = << >>

\* A line that Parse refuses is not stored.
CompressLog(log, timestamp) ==
  /\ Miner!Parse(log, timestamp)
  /\ LET result == parsed'[Len(parsed')]
     IN  IF result.TemplateID = NoID THEN UNCHANGED stored
         ELSE \E variables \in Redactor!RedactVariables(result.Variables) :
                stored' = Append(stored, [Template |-> result.Template, log |-> log,
                                          Variables |-> variables])

CompressionNext == \E log \in Logs, timestamp \in Timestamps : CompressLog(log, timestamp)

CompressionSpec == CompressionInit /\ [][CompressionNext]_compressionVars

----------------------------------------------------------------------------
(* Properties.                                                             *)

StoredType ==
  [Template : Seq(Word \cup {Wild}), log : Logs, Variables : SUBSET (Nat \X Texts)]

\* The types of the service; each line that was given an id is stored.
CompressionTypeOK ==
  /\ Miner!TypeOK
  /\ stored \in Seq(StoredType)
  /\ Len(stored) = Cardinality({i \in DOMAIN parsed : parsed[i].TemplateID # NoID})

\* redactor.go:91, "Redact replaces PII in the given text with placeholders.": nothing
\* the rules detect in a value is returned for storage.
NothingDetectableIsStored ==
  \A i \in DOMAIN stored : \A entry \in stored[i].Variables :
    Redactor!DetectPII(entry[2]) = {}

\* What a result has in place of a token of its line.
StoredAt(s, k) ==
  IF s.Template[k] # Wild THEN {s.Template[k]}
  ELSE {text \in Texts : <<Miner!VarNumber(s.Template, k), text>> \in s.Variables}

\* A result is its line with each token by itself redacted, in the template, too.
TokensAreRedacted ==
  \A i \in DOMAIN stored :
    LET s == stored[i]
    IN  /\ Len(s.Template) = Len(s.log)
        /\ \A k \in DOMAIN s.log : \E text \in Redactor!Redact(s.log[k]) : StoredAt(s, k) = {text}

\* What a rule detects in a token of the result it could not see when it had its turn.
LeftIsLaidBare ==
  \A i \in DOMAIN stored : \A k \in DOMAIN stored[i].log : \A text \in StoredAt(stored[i], k) :
    \A rule \in Redactor!DetectPII(text) : Redactor!LaidBare(rule, stored[i].log[k], text)

StandsAt(stretch, log, k) == \A j \in DOMAIN stretch : k + j \in DOMAIN log /\ log[k + j] = stretch[j]

\* And what is spread over several tokens no rule sees: it is stored as it stands.
SpreadIsStored ==
  \A i \in DOMAIN stored : \A stretch \in Spread, k \in 0..Len(stored[i].log) :
    StandsAt(stretch, stored[i].log, k) =>
      \A j \in DOMAIN stretch : StoredAt(stored[i], k + j) = {stretch[j]}

\* Redaction is exact to the token, in whatever order the rules ran, and no more: it
\* leaves what it laid bare itself, and all that is written with spaces.
RedactionIsExact == TokensAreRedacted /\ LeftIsLaidBare /\ SpreadIsStored
==============================================================================
