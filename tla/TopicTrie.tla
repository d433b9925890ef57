------------------------------ MODULE TopicTrie ------------------------------
(***************************************************************************)
(* The trie of topic filters: its nodes and what subscribe, unsubscribe    *)
(* and match_topic_name compute from one version of it.  A filter or a     *)
(* topic name is the sequence of its levels.  The sorted lists of the code *)
(* are functions here: a node's children are keyed by their name, and its  *)
(* values, which all have the node's filter, by their client.              *)
(***************************************************************************)
EXTENDS Naturals, Sequences, FiniteSets, Functions, TLC

Empty == [x \in {} |-> x]

NewNode == [kids |-> Empty, vals |-> Empty]

IsEmpty(node) == node = NewNode

Wildcards == {"#", "+"}

(* Mutant of InsertValue: a value ousts those of the other clients.        *)
InsertValueOnly(node, client, opt) == [node EXCEPT !.vals = client :> opt]

(* insert_value: a repeated subscription keeps the options of the first.   *)
InsertValue(node, client, opt) == [node EXCEPT !.vals = @ @@ (client :> opt)]

(* sub: the new node.                                                      *)
RECURSIVE Sub(_, _, _, _)
Sub(node, levels, client, opt) ==
  IF levels = <<>> THEN InsertValue(node, client, opt)
  ELSE LET name == Head(levels)
           child == IF name \in DOMAIN node.kids THEN node.kids[name] ELSE NewNode
       IN [node EXCEPT !.kids = (name :> Sub(child, Tail(levels), client, opt)) @@ @]

(* remove_value: among several values only the client has to agree, a      *)
(* single one has to agree in its options too, and with no value the code  *)
(* is unreachable.                                                         *)
RemoveValue(node, client, opt) ==
  LET others == DOMAIN node.vals \ {client}
      agrees == /\ client \in DOMAIN node.vals
                /\ others = {} => node.vals[client] = opt
  IN [node |-> IF agrees THEN [node EXCEPT !.vals = Restrict(@, others)] ELSE node,
      last |-> agrees /\ others = {},
      panics |-> DOMAIN node.vals = {}]

(* A child that has become empty is taken off its parent.                  *)
Prune(kids, name, child) ==
  IF IsEmpty(child) THEN Restrict(kids, DOMAIN kids \ {name}) ELSE (name :> child) @@ kids

(* unsub: the new node, whether the topic's last value went, and whether   *)
(* the thread panics.                                                      *)
RECURSIVE Unsub(_, _, _, _)
Unsub(node, levels, client, opt) ==
  IF levels = <<>> THEN RemoveValue(node, client, opt)
  ELSE IF Head(levels) \notin DOMAIN node.kids THEN [node |-> node, last |-> FALSE, panics |-> FALSE]
  ELSE LET res == Unsub(node.kids[Head(levels)], Tail(levels), client, opt)
       IN [res EXCEPT !.node = [node EXCEPT !.kids = Prune(@, Head(levels), res.node)]]

(* The values of a node, as entries of the filter that leads to it.        *)
Values(node, path) ==
  {[filter |-> path, client |-> c, opt |-> node.vals[c]] : c \in DOMAIN node.vals}

(* Mutant of MatchNames: a "+" at the root matches as well.                *)
MatchNamesAtRoot(node, path, level) == DOMAIN node.kids \cap {"+", level}

(* The children that match_topic descends to.                              *)
MatchNames(node, path, level) ==
  {name \in DOMAIN node.kids : name \in {"+", level} /\ (path = <<>> => name \notin Wildcards)}

(* match_topic for topic names, which have no wildcards: match_level, and  *)
(* at the root no wildcard at all, whatever the topic name.                *)
RECURSIVE MatchTopic(_, _, _)
MatchTopic(node, path, levels) ==
  IF levels = <<>> THEN Values(node, path)
  ELSE UNION {MatchTopic(node.kids[n], Append(path, n), Tail(levels)) :
                n \in MatchNames(node, path, Head(levels))}
       \cup IF path # <<>> /\ "#" \in DOMAIN node.kids
            THEN Values(node.kids["#"], Append(path, "#")) ELSE {}
-----------------------------------------------------------------------------
(* What the trie holds, read off its nodes.                                *)
RECURSIVE Entries(_, _)
Entries(node, path) ==
  Values(node, path) \cup
    UNION {Entries(node.kids[n], Append(path, n)) : n \in DOMAIN node.kids}

(* The nodes below a node.                                                 *)
RECURSIVE Below(_)
Below(node) == UNION {{node.kids[n]} \cup Below(node.kids[n]) : n \in DOMAIN node.kids}

(* Reference for MatchTopic: a filter that begins with no wildcard matches *)
(* a topic name level by level; a last level "#" stands for one or more.   *)
Matches(filter, topic) ==
  /\ filter[1] \notin Wildcards
  /\ Len(filter) <= Len(topic)
  /\ \A i \in DOMAIN filter : filter[i] \in Wildcards \cup {topic[i]}
  /\ Len(filter) < Len(topic) => filter[Len(filter)] = "#"
=============================================================================
