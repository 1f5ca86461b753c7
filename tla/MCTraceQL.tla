------------------------------ MODULE MCTraceQL ------------------------------
(***************************************************************************)
(* Small traces and queries, for TLC, bounded by the number of spans, of         *)
(* conditions and of filters.                                                 *)
(***************************************************************************)
EXTENDS TraceQL

CONSTANTS Statuses, Values    \* of the status and of the attribute

Spans(parents) == [status : Statuses, tag : Values \cup {Nil}, parent : parents]

\* One or two spans, of which either may have lost its parent, and chains of three.
MCTraces ==
  {<<s>> : s \in Spans({0, Lost})}
    \cup {<<s, u>> : s \in Spans({0, Lost}), u \in Spans({0, 1, Lost})}
    \cup {<<s, [s EXCEPT !.parent = 1], u>> : s \in Spans({0}), u \in Spans({2})}

Conds ==
  {IsRoot}
    \cup {Cond("status", o, v) : o \in {"=", "!="}, v \in Statuses}
    \cup {Cond("tag", o, v) : o \in {"=", "!="}, v \in Values \cup {Nil}}
    \cup {Cond("tag", "!~", v) : v \in Values}

Single == {Filter(<<c>>, <<>>) : c \in Conds}
Double == {Filter(<<c, d>>, <<>>) : c, d \in Conds}
Grouped == {Filter(<<>>, <<<<<<c>>, <<d>>>>>>) : c, d \in Conds}
Few == {Filter(<<c>>, <<>>) : c \in {IsRoot} \cup {Cond("tag", "!=", v) : v \in Values}}
Structs == {Struct(f, o, g) : f, g \in Single, o \in Relations}

MCQueries ==
  {Filter(<<>>, <<>>)} \cup Single \cup Double \cup Grouped \cup Structs
    \cup {Or(f, g) : f, g \in Single}
    \cup {Or(Filter(<<c, d>>, <<>>), Filter(<<d>>, <<>>)) : c, d \in Conds}
    \cup {Or(Struct(f, ">>", g), h) : f, h \in Single, g \in Few}
    \cup {Or(h, Or(f, Struct(f, ">", f))) : f, h \in Single}
    \cup {Struct(Struct(f, ">", f), ">", g) : f, g \in Single}

==============================================================================
