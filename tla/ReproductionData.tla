----------------------------- MODULE ReproductionData -----------------------------
(***************************************************************************)
(* The limits on an event's reproductionData (aeh/contracts.py,            *)
(* check_reproduction_data) and its redaction (redact), over every JSON    *)
(* value of a few nodes.                                                   *)
(*                                                                         *)
(* A value is a tree whose nodes are numbered in the order in which visit  *)
(* comes to them: node 1 is the value itself, a node's children follow it. *)
(* Texts are their lengths, apart from those with a secret in them.  The   *)
(* schema, checked before, lets through objects with texts of up to        *)
(* MaxText only.                                                           *)
(***************************************************************************)
EXTENDS Integers, FiniteSets

CONSTANTS
  MaxNodes,       \* bound on the nodes of a value
  MaxDepth,       \* Limits.reproduction_depth
  MaxValues,      \* Limits.reproduction_values
  MaxText,        \* Limits.reproduction_string
  ScrubbedText    \* the default limit of scrub (aeh/errors.py)

ASSUME DataLimitAssumption ==
  /\ MaxNodes \in Nat /\ MaxDepth \in Nat /\ MaxValues \in Nat
  /\ MaxText \in Nat /\ ScrubbedText \in Nat

VARIABLES
  value,      \* the tree, <<>> for null or no value
  count,      \* nodes visited
  outcome     \* "arriving", "checking", "accepted", "refused"
dataVars == <<value, count, outcome>>

---------------------------------------------------------------------------------
(* Values. *)

Text ==
  [length : {1, ScrubbedText, ScrubbedText + 1, MaxText}, secret : {FALSE}]
    \cup [length : {1}, secret : {TRUE}]
NoText == [length |-> 0, secret |-> FALSE]

\* A node: its parent, whether the key it stands under is a sensitive one, its text.
Node == [up : 0..MaxNodes, sensitive : BOOLEAN, text : Text \cup {NoText}]

\* The ancestors of a node and the node itself.
Chains(v) ==
  LET up[m \in {0} \cup DOMAIN v] == IF m = 0 THEN {} ELSE {m} \cup up[v[m].up] IN up

Chain(v, n) == Chains(v)[n]

Depth(v, n) == Cardinality(Chain(v, n)) - 1

\* A node comes under the last one visited or under one of that one's ancestors;
\* texts have no children.
Grows(v, node) ==
  IF v = <<>> THEN node.up = 0 /\ ~node.sensitive /\ node.text = NoText
  ELSE node.up \in Chain(v, Cardinality(DOMAIN v)) /\ v[node.up].text = NoText

---------------------------------------------------------------------------------
(* check_reproduction_data. *)

\* scrub(text) differs from the text: a secret is replaced, and what is longer
\* than scrub's own limit is cut off.
Scrubs(t) == t.secret \/ t.length > ScrubbedText

TextRefused(t) == t.length > MaxText \/ Scrubs(t)

FaultyTooDeep(n) == Depth(value, n) >= MaxDepth

TooDeep(n) == Depth(value, n) > MaxDepth

TooMany == count' > MaxValues

\* The value as it arrives, node by node.
Arrive ==
  /\ outcome = "arriving"
  /\ \/ /\ Cardinality(DOMAIN value) < MaxNodes
        /\ \E node \in Node :
             /\ Grows(value, node)
             /\ value' = [n \in 1..(Cardinality(DOMAIN value) + 1) |->
                            IF n \in DOMAIN value THEN value[n] ELSE node]
        /\ UNCHANGED <<count, outcome>>
     \/ outcome' = "checking" /\ UNCHANGED <<value, count>>

\* The key of the next node, then the node.
Visit ==
  LET n == count + 1 IN
  /\ outcome = "checking" /\ n \in DOMAIN value
  /\ IF value[n].sensitive
     THEN outcome' = "refused" /\ UNCHANGED count
     ELSE /\ count' = n
          /\ outcome' = IF TooDeep(n) \/ TooMany \/ TextRefused(value[n].text)
                        THEN "refused" ELSE outcome
  /\ UNCHANGED value

Accept ==
  /\ outcome = "checking" /\ count = Cardinality(DOMAIN value)
  /\ outcome' = "accepted"
  /\ UNCHANGED <<value, count>>

DataInit == value = <<>> /\ count = 0 /\ outcome = "arriving"

DataNext == Arrive \/ Visit \/ Accept

DataSpec == DataInit /\ [][DataNext]_dataVars

---------------------------------------------------------------------------------
(* redact, of what was accepted. *)

\* A node that redact replaces or rewrites: under a sensitive key, or with a
\* secret.  redact gives scrub the text's own length as limit.
Redacted(n) == value[n].text.secret \/ \E m \in Chain(value, n) : value[m].sensitive

---------------------------------------------------------------------------------
(* Properties. *)

Nodes == DOMAIN value

InLimits ==
  /\ Cardinality(Nodes) <= MaxValues
  /\ \A n \in Nodes : /\ Depth(value, n) <= MaxDepth
                      /\ value[n].text.length <= MaxText
                      /\ ~value[n].sensitive /\ ~value[n].text.secret

\* docs/implementation-contracts.md:365: a value is accepted only within the limits
\* on depth, the value itself at depth 0, on values, itself included, and on texts.
\* What redact would change is refused, so that the row keeps what the checksum was
\* taken of (contracts.py:62-71).  Nothing else is refused, but texts that scrub
\* would cut.
LimitsDecide ==
  /\ outcome = "accepted" => InLimits /\ \A n \in Nodes : ~Redacted(n)
  /\ outcome = "refused" => ~InLimits \/ \E n \in Nodes : value[n].text.length > ScrubbedText
===================================================================================
