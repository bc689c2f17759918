------------------------------ MODULE DrainTree ------------------------------
(***************************************************************************)
(* The Drain log-template miner of internal/compression/drain/drain.go.    *)
(*                                                                         *)
(* A log line is split into tokens; tokens that look like variables become *)
(* the wildcard; a fixed-depth prefix tree, keyed first by the number of   *)
(* tokens and then by the leading tokens, leads to a list of clusters, and *)
(* the line joins the most similar cluster of that list or founds one.     *)
(* Parse holds dt.mu from its first line to its last, so that one call is  *)
(* one atomic step.                                                        *)
(*                                                                         *)
(* A LogCluster is a heap object: the tree and the id map both hold        *)
(* pointers to it, and nothing but the code keeps the two in agreement.    *)
(* `heap' is the sequence of the objects in the order of their creation, a *)
(* pointer is an index into it, a node of the tree is the sequence of keys *)
(* that leads to it.                                                       *)
(***************************************************************************)
EXTENDS Integers, Sequences, FiniteSets, Functions

CONSTANTS
  Word,          \* tokens isVariable rejects
  Variable,      \* tokens isVariable accepts: numbers, addresses, paths...
  Wild,          \* the token "<*>"
  Logs,          \* the log lines that may arrive, as sequences of raw tokens
  Timestamps,    \* the timestamps callers pass
  MaxDepth,      \* Config.MaxDepth
  SimNum, SimDen,\* Config.SimThreshold, as the fraction SimNum / SimDen
  Hash(_),       \* fnv64a of the joined tokens
  NoID,          \* the TemplateID of a call that returned an error
  MaxParses      \* bound on the number of calls of Parse

RawToken == Word \cup Variable \cup {Wild}
Token    == Word \cup {Wild}
Key      == Nat \cup Token  \* keys of KeyToChildNode: "len_n" and tokens

\* isVariable replaces exactly the members of Variable; a literal "<*>" in a log
\* line matches no pattern and stays what it is, the wildcard.
Preprocess(log) == [i \in DOMAIN log |-> IF log[i] \in Variable THEN Wild ELSE log[i]]

ASSUME TokenAssumption ==
  /\ Wild \notin Word \cup Variable
  /\ Word \cap Variable = {}
  /\ Logs \subseteq Seq(RawToken)

ASSUME ConfigAssumption ==
  /\ MaxDepth \in Nat \ {0}
  /\ SimNum \in Nat /\ SimDen \in Nat \ {0} /\ SimNum <= SimDen
  /\ MaxParses \in Nat

\* The 64-bit hash separates the token sequences that occur.
ASSUME HashAssumption ==
  /\ \A l, m \in Logs : Hash(Preprocess(l)) = Hash(Preprocess(m))
                          => Preprocess(l) = Preprocess(m)
  /\ \A l \in Logs : Hash(Preprocess(l)) # NoID

VARIABLES
  heap,      \* every LogCluster allocated
  clusters,  \* dt.clusters: id -> pointer
  tree,      \* path of a node -> its Clusters, a sequence of pointers
  parsed    \* history: what each call of Parse returned, beside its log line

vars == <<heap, clusters, tree, parsed>>

----------------------------------------------------------------------------
(* The prefix tree.                                                        *)

\* Below this depth neither treeSearch nor addToTree descends.
LeafDepth(tokens) == IF Len(tokens) < MaxDepth - 1 THEN Len(tokens) ELSE MaxDepth - 1

\* Mutant: the token index is not shifted by the length level.
LeafPathUnshifted(tokens) ==
  [d \in 1..LeafDepth(tokens) |-> IF d = 1 THEN Len(tokens) ELSE tokens[d]]

\* Where addToTree puts a cluster created from tokens.
LeafPath(tokens) ==
  [d \in 1..LeafDepth(tokens) |-> IF d = 1 THEN Len(tokens) ELSE tokens[d - 1]]

PathPrefixes(path) == {SubSeq(path, 1, d) : d \in 0..Len(path)}

ClustersAt(node) == IF node \in DOMAIN tree THEN tree[node] ELSE << >>

AddToTree(c, path) ==
  [node \in DOMAIN tree \cup PathPrefixes(path) |->
     IF node = path THEN Append(ClustersAt(node), c) ELSE ClustersAt(node)]

\* Mutant: the wildcard child is tried before the exact one.
NextKeyWildFirst(node, tokens) ==
  IF node = << >> THEN Len(tokens)
  ELSE IF Append(node, Wild) \in DOMAIN tree THEN Wild
  ELSE tokens[Len(node)]

\* The key treeSearch follows out of a node: the length, then the exact token if
\* it has a child, else the wildcard.
NextKey(node, tokens) ==
  IF node = << >> THEN Len(tokens)
  ELSE IF Append(node, tokens[Len(node)]) \in DOMAIN tree THEN tokens[Len(node)]
  ELSE Wild

\* The nodes on the walk of treeSearch, and the last of them.
Visited(tokens) ==
  {node \in DOMAIN tree :
     /\ Len(node) <= LeafDepth(tokens)
     /\ \A d \in 1..Len(node) : node[d] = NextKey(SubSeq(node, 1, d - 1), tokens)}

LastVisited(tokens) ==
  CHOOSE node \in Visited(tokens) : \A m \in Visited(tokens) : Len(m) <= Len(node)

\* The list treeSearch hands to findBestMatch; a missing length node is a miss.
Reached(tokens) ==
  LET node == LastVisited(tokens)
  IN  IF node = << >> /\ LeafDepth(tokens) > 0 THEN << >> ELSE tree[node]

----------------------------------------------------------------------------
(* Similarity, merging and extraction.                                     *)

Matching(template, tokens) ==
  {i \in DOMAIN template : template[i] = tokens[i] \/ template[i] = Wild}

Matches(template, tokens) == Cardinality(Matching(template, tokens))

\* The positions of a cluster list whose similarity is positive and reaches the
\* threshold: all lengths are equal, so that counts order similarities.
Candidates(list, tokens) ==
  {k \in DOMAIN list :
     LET template == heap[list[k]].Tokens
     IN  /\ Len(template) = Len(tokens)
         /\ Matches(template, tokens) > 0
         /\ SimDen * Matches(template, tokens) >= SimNum * Len(tokens)}

\* Mutant: the first candidate wins, maxSim is never raised.
FindFirstMatch(list, tokens) ==
  {k \in Candidates(list, tokens) : \A j \in Candidates(list, tokens) : k <= j}

\* The first position of the greatest similarity: `sim > maxSim' keeps the first.
FindBestMatch(list, tokens) ==
  {k \in Candidates(list, tokens) :
     \A j \in Candidates(list, tokens) :
       LET mine   == Matches(heap[list[k]].Tokens, tokens)
           theirs == Matches(heap[list[j]].Tokens, tokens)
       IN  theirs < mine \/ (theirs = mine /\ k <= j)}

\* Mutant: the template is replaced by the tokens of the line.
GeneralizeToLatest(template, tokens) == [i \in DOMAIN template |-> tokens[i]]

\* Mutant: the generalized tokens are computed and not assigned.
GeneralizeForgotten(template, tokens) == template

\* updateCluster: a position that differs becomes the wildcard, for good.
Generalize(template, tokens) ==
  [i \in DOMAIN template |-> IF template[i] = tokens[i] THEN template[i] ELSE Wild]

Wildcards(template) == {i \in DOMAIN template : template[i] = Wild}

\* The number n of the key "var_n" that extractVariables gives position i.
VarNumber(template, i) == Cardinality({j \in Wildcards(template) : j < i})

\* Mutant: extraction runs on the preprocessed tokens.
ExtractFromTokens(template, log) ==
  {<<VarNumber(template, i), Preprocess(log)[i]>> : i \in Wildcards(template)}

\* The variables map, as the set of its entries.
ExtractVariables(template, log) ==
  {<<VarNumber(template, i), log[i]>> : i \in Wildcards(template)}

NewCluster(tokens, timestamp) ==
  [ID |-> Hash(tokens), Tokens |-> tokens, Size |-> 1,
   FirstSeen |-> timestamp, LastSeen |-> timestamp]

UpdatedCluster(cluster, tokens, timestamp) ==
  [cluster EXCEPT !.Size = @ + 1,
                  !.LastSeen = timestamp,
                  !.Tokens = Generalize(@, tokens)]

ParseResult(log, cluster, isNew) ==
  [log |-> log, TemplateID |-> cluster.ID, Template |-> cluster.Tokens,
   Variables |-> ExtractVariables(cluster.Tokens, log), IsNew |-> isNew]

ErrorResult(log) ==
  [log |-> log, TemplateID |-> NoID, Template |-> << >>, Variables |-> {},
   IsNew |-> FALSE]

----------------------------------------------------------------------------
(* Parse, one action per way it returns.                                   *)

Init ==
  /\ heap = << >>
  /\ clusters = << >>
  /\ tree = [node \in {<< >>} |-> << >>]
  /\ parsed = << >>

ParseEmpty(log) ==
  /\ Len(log) = 0
  /\ parsed' = Append(parsed, ErrorResult(log))
  /\ UNCHANGED <<heap, clusters, tree>>

ParseNew(log, timestamp) ==
  LET tokens  == Preprocess(log)
      cluster == NewCluster(tokens, timestamp)
      pointer == Len(heap) + 1
  IN  /\ Len(log) > 0
      /\ Candidates(Reached(tokens), tokens) = {}
      /\ heap' = Append(heap, cluster)
      /\ clusters' = [id \in DOMAIN clusters \cup {cluster.ID} |->
                        IF id = cluster.ID THEN pointer ELSE clusters[id]]
      /\ tree' = AddToTree(pointer, LeafPath(tokens))
      /\ parsed' = Append(parsed, ParseResult(log, cluster, TRUE))

ParseKnown(log, timestamp) ==
  LET tokens == Preprocess(log)
  IN  /\ Len(log) > 0
      /\ \E k \in FindBestMatch(Reached(tokens), tokens) :
           LET pointer == Reached(tokens)[k]
               cluster == UpdatedCluster(heap[pointer], tokens, timestamp)
           IN  /\ heap' = [heap EXCEPT ![pointer] = cluster]
               /\ parsed' = Append(parsed, ParseResult(log, cluster, FALSE))
      /\ UNCHANGED <<clusters, tree>>

Parse(log, timestamp) ==
  /\ Len(parsed) < MaxParses
  /\ \/ ParseEmpty(log)
     \/ ParseNew(log, timestamp)
     \/ ParseKnown(log, timestamp)

Next == \E log \in Logs, timestamp \in Timestamps : Parse(log, timestamp)

Spec == Init /\ [][Next]_vars

GetCluster(id) == heap[clusters[id]]

ClusterCount == Cardinality(DOMAIN clusters)

\* GetStats.TotalLogs: summed over the id map, not over the tree.
TotalLogs == SumFunction([id \in DOMAIN clusters |-> GetCluster(id).Size])

----------------------------------------------------------------------------
(* Properties.                                                             *)

TemplateIDs == {Hash(Preprocess(l)) : l \in Logs}

ClusterType ==
  [ID : TemplateIDs, Tokens : Seq(Token), Size : Nat,
   FirstSeen : Timestamps, LastSeen : Timestamps]

ResultType ==
  [log : Logs, TemplateID : TemplateIDs \cup {NoID}, Template : Seq(Token),
   Variables : SUBSET (Nat \X RawToken), IsNew : BOOLEAN]

\* The variables have the types their Go declarations give them, and every
\* pointer held by the id map or the tree points to an allocated cluster.
TypeOK ==
  /\ heap \in Seq(ClusterType)
  /\ DOMAIN clusters \subseteq TemplateIDs
  /\ \A id \in DOMAIN clusters : clusters[id] \in 1..Len(heap)
  /\ DOMAIN tree \subseteq Seq(Key)
  /\ \A node \in DOMAIN tree : tree[node] \in Seq(1..Len(heap))
  /\ parsed \in Seq(ResultType)

\* Every cluster is the one its id leads to, and every id leads to the cluster that
\* carries it: createCluster writes the id map without looking, and would orphan a
\* cluster if the tree walk ever missed the cluster founded by the same tokens.
UniqueIDs ==
  /\ \A c \in DOMAIN heap : heap[c].ID \in DOMAIN clusters /\ clusters[heap[c].ID] = c
  /\ \A id \in DOMAIN clusters : heap[clusters[id]].ID = id

\* Generalizing never moves a template away from its leaf: each cluster sits in
\* the leaf its present template leads to, and nowhere else.
PathAgreesWithTemplate ==
  /\ \A c \in DOMAIN heap :
       LET leaf == LeafPath(heap[c].Tokens)
       IN  leaf \in DOMAIN tree /\ \E k \in DOMAIN tree[leaf] : tree[leaf][k] = c
  /\ \A node \in DOMAIN tree : \A k \in DOMAIN tree[node] :
       node = LeafPath(heap[tree[node][k]].Tokens)

\* No two clusters generalize to one template: the update of a cluster that was
\* not the best match could make it the twin of another.
DistinctTemplates ==
  \A c, d \in DOMAIN heap : heap[c].Tokens = heap[d].Tokens => c = d

Covers(template, tokens) ==
  Len(template) = Len(tokens) /\ Matching(template, tokens) = DOMAIN template

\* A line stays an instance of the template its id names, however far that
\* template has been generalized since Parse returned the id.
LinesStayCovered ==
  \A n \in DOMAIN parsed :
    parsed[n].TemplateID # NoID =>
      /\ parsed[n].TemplateID \in DOMAIN clusters
      /\ Covers(GetCluster(parsed[n].TemplateID).Tokens, Preprocess(parsed[n].log))

\* What Parse returns loses nothing: at a wildcard of the returned template the
\* variable of that number is the raw token, elsewhere the template is.
ResultsLossless ==
  \A n \in DOMAIN parsed :
    LET r == parsed[n]
    IN  /\ Len(r.Template) = Len(r.log)
        /\ \A i \in DOMAIN r.log :
             IF r.Template[i] = Wild
             THEN {v \in RawToken : <<VarNumber(r.Template, i), v>> \in r.Variables}
                    = {r.log[i]}
             ELSE r.Template[i] = r.log[i]

\* A line parsed twice in a row gets the same id the second time, and founds no
\* cluster: the walk, the choice and the update agree with one another.
RepeatsHit ==
  LET last == parsed[Len(parsed)]
      list == Reached(Preprocess(last.log))
  IN  parsed # << >> /\ last.TemplateID # NoID =>
        \E k \in FindBestMatch(list, Preprocess(last.log)) :
          heap[list[k]].ID = last.TemplateID

\* An id, once handed out, names one cluster for ever, whose template only trades
\* tokens for wildcards.
TemplatesOnlyGeneralize ==
  [][\A id \in DOMAIN clusters :
       /\ id \in DOMAIN clusters' /\ clusters'[id] = clusters[id]
       /\ LET old == heap[clusters[id]]
              new == heap'[clusters[id]]
          IN  /\ new.ID = old.ID
              /\ new.Size >= old.Size
              /\ \A i \in DOMAIN old.Tokens : new.Tokens[i] \in {old.Tokens[i], Wild}]_vars

\* The tree is a tree: every node but the root hangs below another node.
TreeIsPrefixClosed ==
  /\ << >> \in DOMAIN tree
  /\ \A node \in DOMAIN tree : PathPrefixes(node) \subseteq DOMAIN tree

\* Each cluster was founded by some line, whose tokens its id hashes, its template
\* still covers and its leaf still is the leaf of.
ClustersFounded ==
  \A c \in DOMAIN heap : \E l \in Logs :
    /\ heap[c].ID = Hash(Preprocess(l))
    /\ Covers(heap[c].Tokens, Preprocess(l))
    /\ LeafPath(heap[c].Tokens) = LeafPath(Preprocess(l))

\* What every step of Parse relies on and restores: the invariant from which the
\* safety properties are proved in DrainTreeProofs.
IndInv ==
  /\ TypeOK
  /\ TreeIsPrefixClosed
  /\ ClustersFounded
  /\ PathAgreesWithTemplate
  /\ UniqueIDs
  /\ DistinctTemplates

LinesOf(id) == {n \in DOMAIN parsed : parsed[n].TemplateID = id}

\* A cluster counts the lines that were given its id, whatever became of the tree
\* and of its template meanwhile.
SizesCountLines ==
  \A id \in DOMAIN clusters :
    LinesOf(id) # {} /\ GetCluster(id).Size = Cardinality(LinesOf(id))

\* GetStats sums over the id map and so sees every line that was parsed without an
\* error, once: no cluster has dropped out of the map, none is in it twice.
StatsAddUp ==
  /\ TotalLogs = Cardinality({n \in DOMAIN parsed : parsed[n].TemplateID # NoID})
  /\ ClusterCount <= TotalLogs

\* The invariant of Parse and of what GetStats reads.
MinerInv ==
  /\ IndInv
  /\ LinesStayCovered
  /\ SizesCountLines
  /\ StatsAddUp
==============================================================================
