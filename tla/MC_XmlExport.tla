---------------------------- MODULE MC_XmlExport ----------------------------
(* Topologies for XmlExport: the topology element alone, one with an      *)
(* object whose attribute needs escaping and an info element with         *)
(* content, and a nested object with two characters to escape.           *)
EXTENDS XmlExport

MCDocs ==
  { Node("t", << >>, "", << >>),
    Node("t", << >>, "", << Node("o", << <<"n", <<"a", "<">> >> >>, "", << >>),
                            Node("i", << >>, "x", << >>) >>),
    Node("t", << >>, "", << Node("o", << >>, "",
                              << Node("o", << <<"n", <<"&", "\"">> >> >>, "", << >>) >>) >>) }

\* Attribute values for the escape check: up to three characters.
MCValues == UNION {[1 .. n -> {"a", "<", "&", "\n"}] : n \in 0 .. 3}

\* The attribute values of a topology.
RECURSIVE ValuesOf(_)
ValuesOf(n) ==
  {n.props[i][2] : i \in DOMAIN n.props} \cup UNION {ValuesOf(n.kids[i]) : i \in DOMAIN n.kids}

\* escape_string agrees with escaping every character by itself: NULL
\* exactly when there is nothing to escape, otherwise every special
\* character replaced by its entity, whatever the runs between them.
EscapeMatchesReference ==
  \A v \in MCValues \cup ValuesOf(RootOf(tree, kind)) :
    IF EscapeRef(v) = Concat(v) THEN EscapeString(v) = NULL
    ELSE EscapeString(v) = EscapeRef(v)
=============================================================================
