--------------------------- MODULE LoggingProofs ---------------------------
(***************************************************************************)
(* What Logging promises, proved for every tree of loggers, every list of  *)
(* attributes and every span.                                              *)
(*                                                                         *)
(* First which groups are open after a sequence of operations, then which  *)
(* fields an attribute becomes, then that the operations of a handler      *)
(* mirror the calls it was derived by.                                     *)
(***************************************************************************)
EXTENDS Logging, WellFoundedInduction, TLAPS

-----------------------------------------------------------------------------
(* The groups that are open.                                               *)

\* Induction: a set of numbers with 0 and every successor has them all.
LEMMA SetInduction ==
    ASSUME NEW S \in SUBSET Nat, 0 \in S, \A n \in S : n + 1 \in S
    PROVE  S = Nat
<1> SUFFICES ASSUME Nat \ S # {} PROVE FALSE
    OBVIOUS
<1>1. PICK m \in Nat \ S : \A k \in Nat \ S : ~ (<<k, m>> \in OpToRel(<, Nat))
    BY WFMin, NatLessThanWellFounded
<1>2. m # 0 /\ m - 1 \in Nat
    OBVIOUS
<1>3. <<m - 1, m>> \in OpToRel(<, Nat)
    BY <1>2 DEF OpToRel
<1>4. m - 1 \in S
    BY <1>1, <1>2, <1>3
<1>5. (m - 1) + 1 \in S
    BY <1>4
<1> QED BY <1>5

\* What an operation opens.
Opened(path, op) == IF op.group = "" THEN path ELSE Append(path, op.group)

\* f is what GroupsOf computes from the first n operations.
Opens(f, ops, n) ==
    f = [i \in 0..n |-> IF i = 0 THEN <<>> ELSE Opened(f[i - 1], ops[i])]

\* There is such a function, for every n.
LEMMA OpensExists ==
    ASSUME NEW ops, NEW n \in Nat
    PROVE  \E f : Opens(f, ops, n)
<1> DEFINE S == {m \in Nat : \E f : Opens(f, ops, m)}
<1>1. 0 \in S
    <2> DEFINE g == [i \in 0..0 |-> <<>>]
    <2>1. \A i \in 0..0 : i = 0
        OBVIOUS
    <2>2. Opens(g, ops, 0)
        BY <2>1 DEF Opens
    <2> QED BY <2>2
<1>2. ASSUME NEW m \in S PROVE m + 1 \in S
    <2>1. PICK f : Opens(f, ops, m)
        BY <1>2
    <2> DEFINE g == [i \in 0..(m + 1) |-> IF i \in 0..m THEN f[i] ELSE Opened(f[i - 1], ops[i])]
    <2>2. ASSUME NEW i \in 0..(m + 1)
          PROVE  g[i] = IF i = 0 THEN <<>> ELSE Opened(g[i - 1], ops[i])
        <3>1. CASE i \in 0..m
            <4>1. f[i] = IF i = 0 THEN <<>> ELSE Opened(f[i - 1], ops[i])
                BY <2>1, <3>1 DEF Opens
            <4>2. i # 0 => g[i - 1] = f[i - 1]
                BY <3>1
            <4> QED BY <3>1, <4>1, <4>2
        <3>2. CASE i = m + 1
            <4>1. i # 0 /\ i \notin 0..m /\ i - 1 \in 0..m
                BY <3>2
            <4>2. g[i - 1] = f[i - 1] /\ g[i] = Opened(f[i - 1], ops[i])
                BY <4>1
            <4> QED BY <4>1, <4>2
        <3> QED BY <3>1, <3>2
    <2>3. Opens(g, ops, m + 1)
        BY <2>2 DEF Opens
    <2> QED BY <2>3
<1> HIDE DEF S
<1>3. S = Nat
    BY <1>1, <1>2, SetInduction DEF S
<1> QED BY <1>3 DEF S

\* GroupsOf is its last value.
LEMMA GroupsOfOpens ==
    ASSUME NEW ops, Len(ops) \in Nat
    PROVE  \E f : Opens(f, ops, Len(ops)) /\ GroupsOf(ops) = f[Len(ops)]
<1> DEFINE f == CHOOSE f : Opens(f, ops, Len(ops))
<1>1. Opens(f, ops, Len(ops))
    BY OpensExists
<1>2. GroupsOf(ops) = f[Len(ops)]
    BY DEF GroupsOf, Opens, Opened
<1> QED BY <1>1, <1>2

\* It is computed from left to right.
LEMMA OpensAt ==
    ASSUME NEW f, NEW ops, NEW n \in Nat, Opens(f, ops, n)
    PROVE  f[0] = <<>> /\ \A i \in 1..n : f[i] = Opened(f[i - 1], ops[i])
<1>1. \A i \in 0..n : f[i] = IF i = 0 THEN <<>> ELSE Opened(f[i - 1], ops[i])
    BY DEF Opens
<1>2. 0 \in 0..n /\ \A i \in 1..n : i \in 0..n /\ i # 0
    OBVIOUS
<1> QED BY <1>1, <1>2

\* The operations of more are k that open no group, and then those of ops or others
\* that open the same groups.
Extends(more, m, ops, n, k) ==
    /\ m = k + n
    /\ \A i \in 1..k : more[i].group = ""
    /\ \A i \in 1..n : more[k + i].group = ops[i].group

\* Then the same groups are open.
LEMMA OpensAlike ==
    ASSUME NEW ops, NEW more, NEW n \in Nat, NEW k \in Nat, NEW m \in Nat,
           NEW f, NEW g, Opens(f, ops, n), Opens(g, more, m), Extends(more, m, ops, n, k)
    PROVE  g[m] = f[n]
<1>m. m = k + n
    BY DEF Extends
<1>0. /\ f[0] = <<>> /\ \A i \in 1..n : f[i] = Opened(f[i - 1], ops[i])
      /\ g[0] = <<>> /\ \A i \in 1..(k + n) : g[i] = Opened(g[i - 1], more[i])
    BY <1>m, OpensAt
<1> DEFINE S == {j \in Nat : j <= k => g[j] = <<>>}
<1>1. 0 \in S
    BY <1>0
<1>2. ASSUME NEW j \in S PROVE j + 1 \in S
    <2> SUFFICES ASSUME j + 1 <= k PROVE g[j + 1] = <<>>
        OBVIOUS
    <2>1. j + 1 \in 1..(k + n) /\ j + 1 \in 1..k /\ (j + 1) - 1 = j
        OBVIOUS
    <2>2. more[j + 1].group = ""
        BY <2>1 DEF Extends
    <2>3. g[j + 1] = Opened(g[j], more[j + 1])
        BY <1>0, <2>1
    <2>4. g[j] = <<>>
        BY <1>2
    <2> QED BY <2>2, <2>3, <2>4 DEF Opened
<1> HIDE DEF S
<1>3. S = Nat
    BY <1>1, <1>2, SetInduction DEF S
<1>4. g[k] = <<>>
    BY <1>3 DEF S
<1> DEFINE T == {j \in Nat : j <= n => g[k + j] = f[j]}
<1>5. 0 \in T
    <2>1. k + 0 = k
        OBVIOUS
    <2> QED BY <1>0, <1>4, <2>1
<1>6. ASSUME NEW j \in T PROVE j + 1 \in T
    <2> SUFFICES ASSUME j + 1 <= n PROVE g[k + (j + 1)] = f[j + 1]
        OBVIOUS
    <2>1. /\ j + 1 \in 1..n /\ (j + 1) - 1 = j
          /\ k + (j + 1) \in 1..(k + n) /\ (k + (j + 1)) - 1 = k + j
        OBVIOUS
    <2>2. f[j + 1] = Opened(f[j], ops[j + 1])
        BY <1>0, <2>1
    <2>3. g[k + (j + 1)] = Opened(g[k + j], more[k + (j + 1)])
        BY <1>0, <2>1
    <2>4. more[k + (j + 1)].group = ops[j + 1].group
        BY <2>1 DEF Extends
    <2>5. g[k + j] = f[j]
        BY <1>6
    <2> QED BY <2>2, <2>3, <2>4, <2>5 DEF Opened
<1> HIDE DEF T
<1>7. T = Nat
    BY <1>5, <1>6, SetInduction DEF T
<1> QED BY <1>m, <1>7 DEF T

LEMMA SameGroups ==
    ASSUME NEW ops, NEW more, NEW n \in Nat, NEW k \in Nat, NEW m \in Nat,
           Len(ops) = n, Len(more) = m, Extends(more, m, ops, n, k)
    PROVE  GroupsOf(more) = GroupsOf(ops)
<1>1. PICK f : Opens(f, ops, n) /\ GroupsOf(ops) = f[n]
    BY GroupsOfOpens
<1>2. PICK g : Opens(g, more, m) /\ GroupsOf(more) = g[m]
    BY GroupsOfOpens
<1>3. g[m] = f[n]
    BY <1>1, <1>2, OpensAlike
<1> QED BY <1>1, <1>2, <1>3

\* Without operations no group is open.
LEMMA NoGroups == ASSUME NEW ops, Len(ops) = 0 PROVE GroupsOf(ops) = <<>>
<1>1. PICK f : Opens(f, ops, 0) /\ GroupsOf(ops) = f[0]
    BY GroupsOfOpens
<1> QED BY <1>1, OpensAt

\* The operations open groups of T.
OpenOnly(ops, T) == \A i \in 1..Len(ops) : ops[i].group \in T \cup {""}

\* The groups that are open have been opened.
LEMMA GroupsOfType ==
    ASSUME NEW T, NEW ops, Len(ops) \in Nat, OpenOnly(ops, T)
    PROVE  GroupsOf(ops) \in Seq(T)
<1>1. PICK f : Opens(f, ops, Len(ops)) /\ GroupsOf(ops) = f[Len(ops)]
    BY GroupsOfOpens
<1>2. f[0] = <<>> /\ \A i \in 1..Len(ops) : f[i] = Opened(f[i - 1], ops[i])
    BY <1>1, OpensAt
<1> DEFINE S == {j \in Nat : j <= Len(ops) => f[j] \in Seq(T)}
<1>3. 0 \in S
    <2>1. <<>> \in Seq(T)
        OBVIOUS
    <2>2. f[0] \in Seq(T)
        BY <1>2, <2>1, Zenon
    <2> QED BY <2>2
<1>4. ASSUME NEW j \in S PROVE j + 1 \in S
    <2> SUFFICES ASSUME j + 1 <= Len(ops) PROVE f[j + 1] \in Seq(T)
        OBVIOUS
    <2>1. j + 1 \in 1..Len(ops) /\ (j + 1) - 1 = j
        OBVIOUS
    <2>2. f[j + 1] = Opened(f[j], ops[j + 1])
        BY <1>2, <2>1
    <2>3. f[j] \in Seq(T)
        BY <1>4
    <2>4. ops[j + 1].group \in T \cup {""}
        BY <2>1 DEF OpenOnly
    <2>5. CASE ops[j + 1].group = ""
        <3>1. f[j + 1] = f[j]
            BY <2>2, <2>5 DEF Opened
        <3> QED BY <2>3, <3>1
    <2>6. CASE ops[j + 1].group # ""
        <3>1. f[j + 1] = Append(f[j], ops[j + 1].group)
            BY <2>2, <2>6 DEF Opened
        <3>2. ops[j + 1].group \in T
            BY <2>4, <2>6
        <3> QED BY <2>3, <3>1, <3>2
    <2> QED BY <2>5, <2>6
<1> HIDE DEF S
<1>5. S = Nat
    BY <1>3, <1>4, SetInduction DEF S
<1> QED BY <1>1, <1>5 DEF S

\* The groups that are open when the i-th operation is made.
Path(ops, i) == GroupsOf(SubSeq(ops, 1, i - 1))

-----------------------------------------------------------------------------
(* The fields of attributes.                                               *)

\* How a list of attributes is kept by a handler with these groups open.
Kept(path, list) == IF path = <<>> THEN renameReservedAttrs(list) ELSE list

\* The fields a caller asks for with a list.
Given(path, list) ==
    UNION {AttrFields(path, IF path = <<>> THEN renameReserved(list[i]) ELSE list[i]) :
            i \in DOMAIN list}

\* It is for these that Asked asks.
LEMMA AskedIsGiven ==
    ASSUME NEW made, NEW record
    PROVE  Asked(made, record) =
            (UNION {Given(Path(made, i), made[i].attrs) : i \in DOMAIN made})
            \cup Given(GroupsOf(made), record.attrs)
BY DEF Asked, Given, Path

\* A list that is kept is written as it was given.
LEMMA KeptIsGiven ==
    ASSUME NEW path, NEW list
    PROVE  ListFields(path, Kept(path, list)) = Given(path, list)
<1>1. CASE path = <<>>
    <2> DEFINE kept == renameReservedAttrs(list)
    <2>1. DOMAIN kept = DOMAIN list /\ \A i \in DOMAIN list : kept[i] = renameReserved(list[i])
        BY DEF renameReservedAttrs
    <2> HIDE DEF kept
    <2>2. ListFields(path, kept) = UNION {AttrFields(path, kept[i]) : i \in DOMAIN kept}
        BY DEF ListFields
    <2>3. Given(path, list) = UNION {AttrFields(path, renameReserved(list[i])) : i \in DOMAIN list}
        BY <1>1 DEF Given
    <2>4. {AttrFields(path, kept[i]) : i \in DOMAIN kept}
            = {AttrFields(path, renameReserved(list[i])) : i \in DOMAIN list}
        BY <2>1
    <2>5. ListFields(path, kept) = Given(path, list)
        BY <2>2, <2>3, <2>4
    <2> QED BY <1>1, <2>5 DEF Kept, kept
<1>2. CASE path # <<>>
    BY <1>2 DEF Kept, Given, ListFields
<1> QED BY <1>1, <1>2

\* A field that is not one of the handler's own.
Foreign(f) == f.path # <<>> \/ f.key \notin HandlerKeys

\* A key of an attribute.
IsKey(key) == key \in Seq(ToSet(key)) /\ key # <<>>

\* A renamed key begins with the prefix and has the old one behind it.
LEMMA Renamed ==
    ASSUME NEW key, IsKey(key)
    PROVE  LET new == <<"attr_">> \o key
           IN  new # <<>> /\ new[1] = "attr_" /\ Len(new) > 1
<1> DEFINE S == {"attr_"} \cup ToSet(key)
<1>1. key \in Seq(ToSet(key)) /\ key # <<>>
    BY DEF IsKey
<1>2. key \in Seq(S) /\ <<"attr_">> \in Seq(S)
    <2>1. ToSet(key) \subseteq S /\ "attr_" \in S
        OBVIOUS
    <2> HIDE DEF S
    <2> QED BY <1>1, <2>1
<1> HIDE DEF S
<1> QED BY <1>1, <1>2

\* The attribute is written under a key that is no handler's, in its groups or at
\* the top.
LEMMA RenamedIsForeign ==
    ASSUME NEW attr, DOMAIN attr = {"key", "value", "members"}, IsKey(attr.key)
    PROVE  LET new == renameReserved(attr)
           IN  /\ new.key # <<>> /\ new.value = attr.value /\ new.members = attr.members
               /\ replaceAttr(<<>>, new.key) = new.key
               /\ new.key \notin HandlerKeys
               /\ attr.key # <<"audit">> => new.key # <<"audit">>
<1> DEFINE new == renameReserved(attr)
           prefixed == <<"attr_">> \o attr.key
<1>1. CASE isReserved(attr.key)
    <2>1. new.key = prefixed /\ new.value = attr.value /\ new.members = attr.members
        BY <1>1 DEF renameReserved
    <2>2. prefixed # <<>> /\ prefixed[1] = "attr_" /\ Len(prefixed) > 1
        BY Renamed
    <2> HIDE DEF prefixed, new
    <2>3. /\ prefixed # <<"level">> /\ prefixed # <<"msg">> /\ prefixed # <<"time">>
          /\ prefixed # <<"severity">> /\ prefixed # <<"message">> /\ prefixed # keyTrace
          /\ prefixed # <<"audit">>
        BY <2>2 DEF keyTrace
    <2>4. replaceAttr(<<>>, new.key) = new.key
        BY <2>1, <2>3 DEF replaceAttr
    <2>5. new.key \notin HandlerKeys
        BY <2>1, <2>3 DEF HandlerKeys
    <2> QED BY <2>1, <2>2, <2>3, <2>4, <2>5 DEF new
<1>2. CASE ~isReserved(attr.key)
    <2>1. new = attr
        BY <1>2 DEF renameReserved
    <2>2. attr.key \notin reservedKeys /\ Head(attr.key) # "logging.googleapis.com/"
        BY <1>2 DEF isReserved
    <2>3. attr.key # keyTrace
        BY <2>2 DEF keyTrace
    <2>4. attr.key # <<>>
        BY DEF IsKey
    <2>5. replaceAttr(<<>>, attr.key) = attr.key
        BY <2>2 DEF replaceAttr, reservedKeys
    <2>6. attr.key \notin HandlerKeys
        BY <2>2, <2>3 DEF HandlerKeys, reservedKeys
    <2> QED BY <2>1, <2>4, <2>5, <2>6
<1> QED BY <1>1, <1>2

\* Nothing that a caller asks for is mistaken for a field of the handler, and only
\* the audit emitter's group has its name.
LEMMA GivenIsForeign ==
    ASSUME NEW T, NEW path \in Seq(T), NEW list, IsList(list), NEW f \in Given(path, list)
    PROVE  /\ Foreign(f)
           /\ f.path = <<"audit">> =>
                "audit" \in T \/ \E i \in DOMAIN list : list[i].key = <<"audit">>
<1>1. PICK i \in DOMAIN list :
        f \in AttrFields(path, IF path = <<>> THEN renameReserved(list[i]) ELSE list[i])
    BY DEF Given
<1> DEFINE attr == list[i]
           new == IF path = <<>> THEN renameReserved(attr) ELSE attr
<1>2. DOMAIN attr = {"key", "value", "members"} /\ IsKey(attr.key)
    BY DEF IsList, IsKey
<1>3. /\ new.key # <<>>
      /\ path = <<>> => /\ replaceAttr(<<>>, new.key) = new.key
                        /\ new.key \notin HandlerKeys
                        /\ attr.key # <<"audit">> => new.key # <<"audit">>
    <2>1. CASE path = <<>>
        BY <1>2, <2>1, RenamedIsForeign
    <2>2. CASE path # <<>>
        BY <1>2, <2>2 DEF IsKey
    <2> QED BY <2>1, <2>2
<1>4. new.key \in Seq(ToSet(new.key))
    <2>1. attr.key \in Seq(ToSet(attr.key))
        BY <1>2 DEF IsKey
    <2>2. CASE new = attr
        BY <2>1, <2>2
    <2>3. CASE new # attr
        <3>1. new.key = <<"attr_">> \o attr.key
            BY <1>2, <2>3 DEF renameReserved
        <3> DEFINE S == {"attr_"} \cup ToSet(attr.key)
                   key == <<"attr_">> \o attr.key
        <3>2. attr.key \in Seq(S) /\ <<"attr_">> \in Seq(S)
            <4>1. ToSet(attr.key) \subseteq S /\ "attr_" \in S
                OBVIOUS
            <4> HIDE DEF S
            <4> QED BY <2>1, <4>1
        <3> HIDE DEF S
        <3>3. key \in Seq(S)
            BY <3>2
        <3> HIDE DEF key
        <3>4. key \in Seq(ToSet(key))
            BY <3>3 DEF ToSet
        <3> QED BY <3>1, <3>4 DEF key
    <2> QED BY <2>2, <2>3
<1> HIDE DEF new
<1>5. CASE new.value = "group"
    <2>1. f.path = path \o new.key
        BY <1>1, <1>5 DEF AttrFields, Field, new
    <2> DEFINE S == T \cup ToSet(new.key)
    <2>2. path \in Seq(S) /\ new.key \in Seq(S)
        <3>1. T \subseteq S /\ ToSet(new.key) \subseteq S
            OBVIOUS
        <3> HIDE DEF S
        <3> QED BY <1>4, <3>1
    <2> HIDE DEF S
    <2>3. Len(path \o new.key) = Len(path) + Len(new.key) /\ Len(new.key) > 0
        BY <1>3, <2>2
    <2>4. f.path # <<>>
        BY <2>1, <2>2, <2>3
    <2>5. ASSUME f.path = <<"audit">>
          PROVE  attr.key = <<"audit">>
        <3>1. Len(path) = 0
            BY <2>1, <2>2, <2>3, <2>5
        <3>2. path = <<>>
            BY <3>1
        <3>3. path \o new.key = new.key
            BY <2>2, <3>2
        <3> QED BY <1>3, <2>1, <2>5, <3>2, <3>3
    <2> QED BY <2>4, <2>5 DEF Foreign
<1>6. CASE new.value # "group"
    <2>1. f = Field(path, new.key, new.value)
        BY <1>1, <1>6 DEF AttrFields, new
    <2>2. f.path = path /\ f.key = replaceAttr(path, new.key)
        BY <2>1 DEF Field
    <2>3. path = <<"audit">> => "audit" \in T
        <3> SUFFICES ASSUME path = <<"audit">> PROVE "audit" \in T
            OBVIOUS
        <3>1. Len(path) = 1 /\ path[1] = "audit"
            OBVIOUS
        <3>2. path[1] \in T
            BY <3>1
        <3> QED BY <3>1, <3>2
    <2> QED BY <1>3, <2>2, <2>3 DEF Foreign
<1> QED BY <1>5, <1>6

-----------------------------------------------------------------------------
(* The operations of a handler and the calls it was derived by.            *)

\* Calls that loggers are derived by.
Calls ==
    {[attrs |-> list, group |-> ""] : list \in Lists \ {<<>>}}
    \cup {[attrs |-> <<>>, group |-> name] : name \in Groups \ {""}}

\* Operations that handlers keep.
Ops ==
    [attrs : Lists \cup {renameReservedAttrs(list) : list \in Lists} \cup {<<>>},
     group : Groups \cup {""}]

\* There is one operation for each call, with the attributes as they are kept.
Mirrors(ops, made) ==
    /\ ops \in Seq(Ops) /\ made \in Seq(Calls) /\ Len(ops) = Len(made)
    /\ \A i \in 1..Len(made) :
        /\ ops[i].group = made[i].group
        /\ ops[i].attrs = Kept(Path(made, i), made[i].attrs)

\* The same groups are open at each.
LEMMA MirroredPaths ==
    ASSUME NEW ops, NEW made, Mirrors(ops, made)
    PROVE  /\ GroupsOf(ops) = GroupsOf(made)
           /\ \A i \in 1..Len(made) : Path(ops, i) = Path(made, i)
<1> DEFINE n == Len(made)
<1>1. n \in Nat /\ Len(ops) = n /\ ops \in Seq(Ops) /\ made \in Seq(Calls)
      /\ \A i \in 1..n : ops[i].group = made[i].group
    BY DEF Mirrors
<1>2. Extends(ops, n, made, n, 0)
    BY <1>1 DEF Extends
<1>3. GroupsOf(ops) = GroupsOf(made)
    BY <1>1, <1>2, SameGroups
<1>4. ASSUME NEW i \in 1..n
      PROVE  Path(ops, i) = Path(made, i)
    <2> DEFINE o == SubSeq(ops, 1, i - 1)
               m == SubSeq(made, 1, i - 1)
    <2>1. /\ Len(o) = i - 1 /\ Len(m) = i - 1 /\ i - 1 \in Nat
          /\ \A j \in 1..(i - 1) : o[j] = ops[j] /\ m[j] = made[j] /\ j \in 1..n
        BY <1>1
    <2> HIDE DEF o, m
    <2>2. Extends(o, i - 1, m, i - 1, 0)
        BY <1>1, <2>1 DEF Extends
    <2>3. GroupsOf(o) = GroupsOf(m)
        BY <2>1, <2>2, SameGroups
    <2> QED BY <2>3 DEF Path, o, m
<1> QED BY <1>3, <1>4

\* The trace fields in front open no group and are below all of them.
LEMMA TracedPaths ==
    ASSUME NEW ops \in Seq(Ops), NEW span
    PROVE  LET traced == <<TraceOp(span)>> \o ops
           IN  /\ DOMAIN traced = 1..(Len(ops) + 1)
               /\ traced[1] = TraceOp(span)
               /\ \A i \in 1..Len(ops) : traced[i + 1] = ops[i]
               /\ GroupsOf(traced) = GroupsOf(ops)
               /\ Path(traced, 1) = <<>>
               /\ \A i \in 1..Len(ops) : Path(traced, i + 1) = Path(ops, i)
<1> DEFINE n == Len(ops)
           traced == <<TraceOp(span)>> \o ops
           S == Ops \cup {TraceOp(span)}
<1>1. ops \in Seq(S) /\ <<TraceOp(span)>> \in Seq(S)
    <2>1. Ops \subseteq S /\ TraceOp(span) \in S
        OBVIOUS
    <2> HIDE DEF S
    <2> QED BY <2>1
<1> HIDE DEF S
<1>2. /\ traced \in Seq(S) /\ Len(traced) = n + 1 /\ n \in Nat
      /\ traced[1] = TraceOp(span)
      /\ \A i \in 1..n : traced[i + 1] = ops[i]
    BY <1>1
<1> HIDE DEF traced
<1>3. TraceOp(span).group = ""
    BY DEF TraceOp
<1>4. GroupsOf(traced) = GroupsOf(ops)
    <2>1. Extends(traced, n + 1, ops, n, 1)
        <3>1. \A j \in 1..1 : j = 1
            OBVIOUS
        <3>2. \A j \in 1..n : 1 + j = j + 1
            BY <1>2
        <3>3. n + 1 = 1 + n
            BY <1>2
        <3>4. \A j \in 1..n : traced[1 + j].group = ops[j].group
            BY <1>2, <3>2
        <3>5. \A j \in 1..1 : traced[j].group = ""
            BY <1>2, <1>3, <3>1
        <3> QED BY <3>3, <3>4, <3>5 DEF Extends
    <2>2. n + 1 \in Nat
        BY <1>2
    <2> QED BY <1>2, <2>1, <2>2, SameGroups
<1>5. Path(traced, 1) = <<>>
    <2>1. Len(SubSeq(traced, 1, 1 - 1)) = 0
        BY <1>2
    <2> QED BY <2>1, NoGroups DEF Path
<1>6. ASSUME NEW i \in 1..n
      PROVE  Path(traced, i + 1) = Path(ops, i)
    <2> DEFINE t == SubSeq(traced, 1, (i + 1) - 1)
               o == SubSeq(ops, 1, i - 1)
    <2>1. /\ Len(t) = i /\ Len(o) = i - 1 /\ i \in Nat /\ i - 1 \in Nat
          /\ t[1] = traced[1]
          /\ \A j \in 1..(i - 1) : t[1 + j] = traced[j + 1] /\ o[j] = ops[j] /\ j \in 1..n
        BY <1>1, <1>2
    <2> HIDE DEF t, o
    <2>2. Extends(t, i, o, i - 1, 1)
        <3>1. \A j \in 1..1 : j = 1
            OBVIOUS
        <3>2. \A j \in 1..1 : t[j].group = ""
            BY <1>2, <1>3, <2>1, <3>1
        <3>3. \A j \in 1..(i - 1) : t[1 + j].group = o[j].group
            BY <1>2, <2>1
        <3>4. i = 1 + (i - 1)
            OBVIOUS
        <3> QED BY <3>2, <3>3, <3>4 DEF Extends
    <2>3. GroupsOf(t) = GroupsOf(o)
        BY <2>1, <2>2, SameGroups
    <2> QED BY <2>3 DEF Path, t, o
<1> QED BY <1>2, <1>4, <1>5, <1>6 DEF traced

\* The fields of the handler: its own three, and the trace.
Basic(level) ==
    {[path |-> <<>>, key |-> <<"time">>, value |-> "now"],
     [path |-> <<>>, key |-> <<"severity">>, value |-> severityOf(level)],
     [path |-> <<>>, key |-> <<"message">>, value |-> "text"]}

Trace(span) ==
    IF span = NoSpan THEN {} ELSE {[path |-> <<>>, key |-> keyTrace, value |-> span]}

\* JSON, with the paths by name.
LEMMA JSONFields ==
    ASSUME NEW ops, NEW record
    PROVE  JSON(ops, record) =
            Basic(record.level)
            \cup (UNION {ListFields(Path(ops, i), ops[i].attrs) : i \in DOMAIN ops})
            \cup ListFields(GroupsOf(ops), record.attrs)
<1>1. {Field(<<>>, <<"time">>, "now"), Field(<<>>, <<"level">>, severityOf(record.level)),
       Field(<<>>, <<"msg">>, "text")} = Basic(record.level)
    <2>1. /\ replaceAttr(<<>>, <<"time">>) = <<"time">>
          /\ replaceAttr(<<>>, <<"level">>) = <<"severity">>
          /\ replaceAttr(<<>>, <<"msg">>) = <<"message">>
        BY DEF replaceAttr
    <2> QED BY <2>1 DEF Field, Basic
<1> QED BY <1>1 DEF JSON, Path

\* What is written through operations that mirror the calls is what was asked for,
\* besides the handler's own fields.
LEMMA MirroredJSON ==
    ASSUME NEW ops, NEW made, Mirrors(ops, made), NEW record, NEW own,
           own.level = record.level, own.attrs = Kept(GroupsOf(made), record.attrs)
    PROVE  /\ JSON(ops, own) = Basic(record.level) \cup Asked(made, record)
           /\ \A span : span # NoSpan /\ span # "group" =>
                JSON(<<TraceOp(span)>> \o ops, own)
                    = Basic(record.level) \cup Trace(span) \cup Asked(made, record)
<1> DEFINE n == Len(made)
           own1 == ListFields(GroupsOf(made), own.attrs)
           G(i) == Given(Path(made, i), made[i].attrs)
<1>1. /\ ops \in Seq(Ops) /\ made \in Seq(Calls) /\ Len(ops) = n /\ n \in Nat
      /\ DOMAIN ops = 1..n /\ DOMAIN made = 1..n
    BY DEF Mirrors
<1>2. GroupsOf(ops) = GroupsOf(made) /\ \A i \in 1..n : Path(ops, i) = Path(made, i)
    BY MirroredPaths
<1>3. own1 = Given(GroupsOf(made), record.attrs)
    BY KeptIsGiven
<1>4. \A i \in 1..n : ListFields(Path(made, i), ops[i].attrs) = G(i)
    BY KeptIsGiven DEF Mirrors
<1>5. Asked(made, record) = (UNION {G(i) : i \in 1..n}) \cup own1
    BY <1>1, <1>3, AskedIsGiven
<1> HIDE DEF own1, G
<1>6. JSON(ops, own) = Basic(record.level) \cup Asked(made, record)
    <2>1. JSON(ops, own) = Basic(own.level)
            \cup (UNION {ListFields(Path(ops, i), ops[i].attrs) : i \in DOMAIN ops})
            \cup ListFields(GroupsOf(ops), own.attrs)
        BY JSONFields
    <2>2. {ListFields(Path(ops, i), ops[i].attrs) : i \in DOMAIN ops} = {G(i) : i \in 1..n}
        BY <1>1, <1>2, <1>4
    <2>3. ListFields(GroupsOf(ops), own.attrs) = own1
        BY <1>2 DEF own1
    <2> QED BY <1>5, <2>1, <2>2, <2>3
<1>7. ASSUME NEW span, span # NoSpan, span # "group"
      PROVE  JSON(<<TraceOp(span)>> \o ops, own)
                = Basic(record.level) \cup Trace(span) \cup Asked(made, record)
    <2> DEFINE traced == <<TraceOp(span)>> \o ops
               F(i) == ListFields(Path(traced, i), traced[i].attrs)
    <2>1. /\ DOMAIN traced = 1..(n + 1) /\ traced[1] = TraceOp(span)
          /\ \A i \in 1..n : traced[i + 1] = ops[i]
          /\ GroupsOf(traced) = GroupsOf(ops) /\ Path(traced, 1) = <<>>
          /\ \A i \in 1..n : Path(traced, i + 1) = Path(ops, i)
        BY <1>1, TracedPaths
    <2> HIDE DEF traced
    <2>2. JSON(traced, own) = Basic(own.level) \cup (UNION {F(i) : i \in DOMAIN traced})
                              \cup ListFields(GroupsOf(traced), own.attrs)
        BY JSONFields
    <2>3. F(1) = Trace(span)
        <3>1. F(1) = ListFields(<<>>, <<Plain(keyTrace, span)>>)
            <4>1. TraceOp(span).attrs = <<Plain(keyTrace, span)>>
                BY DEF TraceOp
            <4> QED BY <2>1, <4>1
        <3>2. ListFields(<<>>, <<Plain(keyTrace, span)>>) = AttrFields(<<>>, Plain(keyTrace, span))
            BY DEF ListFields
        <3>3. AttrFields(<<>>, Plain(keyTrace, span)) = {Field(<<>>, keyTrace, span)}
            BY <1>7 DEF AttrFields, Plain
        <3>4. replaceAttr(<<>>, keyTrace) = keyTrace
            BY DEF replaceAttr, keyTrace
        <3>5. Field(<<>>, keyTrace, span) = [path |-> <<>>, key |-> keyTrace, value |-> span]
            BY <3>4 DEF Field
        <3> QED BY <1>7, <3>1, <3>2, <3>3, <3>5 DEF Trace
    <2>4. \A i \in 1..n : F(i + 1) = G(i)
        BY <1>2, <1>4, <2>1
    <2> HIDE DEF F
    <2>5. UNION {F(i) : i \in DOMAIN traced} = F(1) \cup UNION {G(i) : i \in 1..n}
        <3>1. ASSUME NEW i \in DOMAIN traced
              PROVE  i = 1 \/ \E j \in 1..n : F(i) = G(j)
            <4>1. CASE i = 1
                BY <4>1
            <4>2. CASE i # 1
                <5>1. i - 1 \in 1..n /\ (i - 1) + 1 = i
                    BY <1>1, <2>1, <4>2
                <5>2. F(i) = G(i - 1)
                    BY <2>4, <5>1
                <5> QED BY <5>1, <5>2
            <4> QED BY <4>1, <4>2
        <3>2. ASSUME NEW j \in 1..n
              PROVE  \E i \in DOMAIN traced : F(i) = G(j)
            <4>1. j + 1 \in DOMAIN traced
                BY <1>1, <2>1
            <4> QED BY <2>4, <4>1
        <3>3. 1 \in DOMAIN traced
            BY <1>1, <2>1
        <3> QED BY <3>1, <3>2, <3>3, Zenon
    <2>6. ListFields(GroupsOf(traced), own.attrs) = own1
        BY <1>2, <2>1 DEF own1
    <2>7. JSON(traced, own) = Basic(record.level) \cup Trace(span) \cup Asked(made, record)
        BY <1>5, <2>2, <2>3, <2>5, <2>6
    <2> QED BY <2>7 DEF traced
<1> QED BY <1>6, <1>7

\* The empty list is a list.
LEMMA EmptyList ==
    ASSUME NEW list, list = <<>>
    PROVE  IsList(list) /\ DOMAIN list = {}
<1> DEFINE S == ToSet(list)
<1> HIDE DEF S
<1>1. <<>> \in Seq(S)
    OBVIOUS
<1>2. list \in Seq(S)
    BY <1>1, Zenon
<1>3. Len(<<>>) = 0
    OBVIOUS
<1>4. Len(list) = 0
    BY <1>3, Zenon
<1>5. DOMAIN list = {}
    BY <1>2, <1>4
<1> QED BY <1>2, <1>5, Zenon DEF IsList, S

\* A call has a list of attributes and a group, one of them empty.
LEMMA CallFacts ==
    ASSUME NEW call \in Calls
    PROVE  /\ IsList(call.attrs)
           /\ \A i \in DOMAIN call.attrs : call.attrs[i].key # <<"audit">>
           /\ call.group \in Groups \cup {""}
           /\ (call.attrs = <<>>) # (call.group = "")
<1>1. CASE \E list \in Lists \ {<<>>} : call = [attrs |-> list, group |-> ""]
    <2>1. PICK list \in Lists \ {<<>>} : call = [attrs |-> list, group |-> ""]
        BY <1>1
    <2>2. call.attrs = list /\ call.group = "" /\ list # <<>>
        BY <2>1
    <2>3. IsList(list) /\ \A i \in DOMAIN list : list[i].key # <<"audit">>
        BY <2>1, LoggingAssumption
    <2> QED BY <2>2, <2>3
<1>2. CASE \E name \in Groups \ {""} : call = [attrs |-> <<>>, group |-> name]
    <2>0. PICK name \in Groups \ {""} : call = [attrs |-> <<>>, group |-> name]
        BY <1>2
    <2>1. call.attrs = <<>> /\ call.group \in Groups /\ call.group # ""
        BY <2>0
    <2>3. IsList(call.attrs) /\ \A i \in DOMAIN call.attrs : call.attrs[i].key # <<"audit">>
        BY <2>1, EmptyList
    <2>4. (call.attrs = <<>>) # (call.group = "")
        BY <2>1
    <2> QED BY <2>1, <2>3, <2>4
<1> QED BY <1>1, <1>2 DEF Calls

\* Nothing that is asked for is a field of the handler.
LEMMA AskedIsForeign ==
    ASSUME NEW made \in Seq(Calls), NEW record, IsList(record.attrs),
           NEW f \in Asked(made, record)
    PROVE  /\ Foreign(f)
           /\ f.path = <<"audit">> =>
                \E i \in DOMAIN record.attrs : record.attrs[i].key = <<"audit">>
<1>0. "audit" \notin Groups
    BY LoggingAssumption
<1>1. \A i \in DOMAIN made : made[i] \in Calls /\ i \in 1..Len(made)
    OBVIOUS
<1>2. ASSUME NEW i \in DOMAIN made
      PROVE  Path(made, i) \in Seq(Groups)
    <2> DEFINE m == SubSeq(made, 1, i - 1)
    <2>1. Len(m) \in Nat /\ \A j \in 1..Len(m) : m[j] \in Calls
        BY <1>1, <1>2
    <2> HIDE DEF m
    <2>2. OpenOnly(m, Groups)
        BY <2>1, CallFacts DEF OpenOnly
    <2> QED BY <2>1, <2>2, GroupsOfType DEF Path, m
<1>3. GroupsOf(made) \in Seq(Groups)
    <2>1. OpenOnly(made, Groups) /\ Len(made) \in Nat
        <3>1. Len(made) \in Nat /\ \A j \in 1..Len(made) : made[j] \in Calls
            OBVIOUS
        <3>2. \A j \in 1..Len(made) : made[j].group \in Groups \cup {""}
            BY <3>1, CallFacts
        <3> QED BY <3>1, <3>2 DEF OpenOnly
    <2> QED BY <2>1, GroupsOfType
<1>4. \/ \E i \in DOMAIN made : f \in Given(Path(made, i), made[i].attrs)
      \/ f \in Given(GroupsOf(made), record.attrs)
    <2> DEFINE G(i) == Given(Path(made, i), made[i].attrs)
               last == Given(GroupsOf(made), record.attrs)
    <2>1. Asked(made, record) = (UNION {G(i) : i \in DOMAIN made}) \cup last
        BY AskedIsGiven
    <2>2. f \in Asked(made, record)
        OBVIOUS
    <2> HIDE DEF G, last
    <2>3. f \in (UNION {G(i) : i \in DOMAIN made}) \cup last
        BY <2>1, <2>2, Zenon
    <2>4. f \in last \/ f \in UNION {G(i) : i \in DOMAIN made}
        BY <2>3, Zenon
    <2>5. (\E i \in DOMAIN made : f \in G(i)) \/ f \in last
        BY <2>4, Zenon
    <2> QED BY <2>5, Zenon DEF G, last
<1>5. CASE \E i \in DOMAIN made : f \in Given(Path(made, i), made[i].attrs)
    <2>1. PICK i \in DOMAIN made : f \in Given(Path(made, i), made[i].attrs)
        BY <1>5
    <2>2. /\ IsList(made[i].attrs)
          /\ \A j \in DOMAIN made[i].attrs : made[i].attrs[j].key # <<"audit">>
        BY <1>1, CallFacts
    <2> QED BY <1>0, <1>2, <2>1, <2>2, GivenIsForeign
<1>6. CASE f \in Given(GroupsOf(made), record.attrs)
    BY <1>0, <1>3, <1>6, GivenIsForeign
<1> QED BY <1>4, <1>5, <1>6

-----------------------------------------------------------------------------
(* The inductive invariant.                                                *)

\* A handler has a slice with its operations, and they mirror the calls it was derived by.
Mirrored(memory, handler, made) ==
    /\ handler \in [ops : [array : Nat, len : Nat], inner : Seq(Ops), grouped : BOOLEAN]
    /\ handler.ops.array \in 1..Len(memory)
    /\ handler.ops.len <= Len(memory[handler.ops.array])
    /\ SubSeq(memory[handler.ops.array], 1, handler.ops.len) = handler.inner
    /\ Mirrors(handler.inner, made)
    /\ handler.grouped = (GroupsOf(made) # <<>>)

\* So has every handler, and the first was not derived.
Derived ==
    /\ arrays \in Seq(Seq(Ops))
    /\ handlers \in Seq([ops : [array : Nat, len : Nat], inner : Seq(Ops), grouped : BOOLEAN])
    /\ calls \in Seq(Seq(Calls))
    /\ Len(handlers) \in 1..MaxHandlers /\ Len(calls) = Len(handlers)
    /\ calls[1] = <<>>
    /\ \A h \in 1..Len(handlers) : Mirrored(arrays, handlers[h], calls[h])

\* The subjects of audit records.
Subjects == {"", "u"}

\* The attributes of an audit record.
AuditList(subject, span) == <<GroupOf(<<"audit">>, attrs(subject, span))>>

\* An entry is of a handler, of a level that is written, of a caller or the audit
\* emitter, and has the handler's fields and those that were asked for.
Filed ==
    entry # NoEntry =>
        /\ entry.handler \in 1..Len(handlers)
        /\ entry.span \in Spans \cup {NoSpan}
        /\ entry.record.level \in Int /\ entry.record.level >= LevelDebug
        /\ \/ entry.record.attrs \in Lists
           \/ /\ entry.handler = 1
              /\ \E subject \in Subjects : entry.record.attrs = AuditList(subject, entry.span)
        /\ entry.fields = Basic(entry.record.level) \cup Trace(entry.span)
                          \cup Asked(calls[entry.handler], entry.record)

IInv == Derived /\ Filed

\* Arrays that are added leave a handler as it is.
LEMMA MoreArrays ==
    ASSUME NEW memory \in Seq(Seq(Ops)), NEW array \in Seq(Ops), NEW handler, NEW made,
           Mirrored(memory, handler, made)
    PROVE  Mirrored(Append(memory, array), handler, made)
<1>1. handler.ops.array \in 1..Len(memory)
    BY DEF Mirrored
<1>2. /\ Append(memory, array)[handler.ops.array] = memory[handler.ops.array]
      /\ Len(Append(memory, array)) = Len(memory) + 1
    BY <1>1
<1>3. handler.ops.array \in 1..Len(Append(memory, array))
    BY <1>1, <1>2
<1> QED BY <1>2, <1>3, Zenon DEF Mirrored

\* One more operation for one more call.
LEMMA MirrorsMore ==
    ASSUME NEW ops, NEW made, Mirrors(ops, made), NEW op \in Ops, NEW call \in Calls,
           op.group = call.group, op.attrs = Kept(GroupsOf(made), call.attrs)
    PROVE  Mirrors(Append(ops, op), Append(made, call))
<1> DEFINE n == Len(made)
           ops1 == Append(ops, op)
           made1 == Append(made, call)
<1>1. ops \in Seq(Ops) /\ made \in Seq(Calls) /\ Len(ops) = n /\ n \in Nat
    BY DEF Mirrors
<1>2. ops1 \in Seq(Ops) /\ made1 \in Seq(Calls) /\ Len(ops1) = n + 1 /\ Len(made1) = n + 1
    BY <1>1
<1>3. /\ ops1[n + 1] = op /\ made1[n + 1] = call
      /\ \A i \in 1..n : ops1[i] = ops[i] /\ made1[i] = made[i]
    BY <1>1
<1>4. ASSUME NEW i \in 1..(n + 1)
      PROVE  SubSeq(made1, 1, i - 1) = SubSeq(made, 1, i - 1)
    BY <1>1, <1>2, <1>3
<1>5. SubSeq(made, 1, (n + 1) - 1) = made
    BY <1>1
<1>6. Path(made1, n + 1) = GroupsOf(made)
    <2>1. n + 1 \in 1..(n + 1)
        BY <1>1
    <2>2. SubSeq(made1, 1, (n + 1) - 1) = made
        BY <1>4, <1>5, <2>1
    <2> QED BY <2>2 DEF Path
<1> HIDE DEF ops1, made1
<1>7. ASSUME NEW i \in 1..(n + 1)
      PROVE  ops1[i].group = made1[i].group /\ ops1[i].attrs = Kept(Path(made1, i), made1[i].attrs)
    <2>1. CASE i = n + 1
        BY <1>3, <1>6, <2>1
    <2>2. CASE i \in 1..n
        <3>1. Path(made1, i) = Path(made, i)
            BY <1>4 DEF Path
        <3>2. ops[i].group = made[i].group /\ ops[i].attrs = Kept(Path(made, i), made[i].attrs)
            BY <2>2 DEF Mirrors
        <3> QED BY <1>3, <2>2, <3>1, <3>2
    <2> QED BY <1>1, <2>1, <2>2
<1> QED BY <1>2, <1>7 DEF Mirrors, ops1, made1

\* A handler that is derived mirrors one call more.
LEMMA DerivedMirrors ==
    ASSUME Derived, NEW h \in 1..Len(handlers), NEW op \in Ops, NEW call \in Calls,
           op.group = call.group, op.attrs = Kept(GroupsOf(calls[h]), call.attrs)
    PROVE  LET new == appendOp(handlers[h].ops, op)
           IN  /\ new.arrays \in Seq(Seq(Ops))
               /\ Mirrored(new.arrays, newTraceHandler(new.arrays, new.slice),
                           Append(calls[h], call))
               /\ \A g \in 1..Len(handlers) : Mirrored(new.arrays, handlers[g], calls[g])
<1> DEFINE handler == handlers[h]
           inner == handler.inner
           made == calls[h]
           array == Append(inner, op)
           memory == Append(arrays, array)
           slice == [array |-> Len(arrays) + 1, len |-> handler.ops.len + 1]
           new == appendOp(handler.ops, op)
<1>1. /\ arrays \in Seq(Seq(Ops)) /\ Mirrored(arrays, handler, made)
      /\ \A g \in 1..Len(handlers) : Mirrored(arrays, handlers[g], calls[g])
    BY DEF Derived
<1>2. /\ inner \in Seq(Ops) /\ handler.ops.len \in Nat /\ handler.ops.array \in 1..Len(arrays)
      /\ handler.ops.len <= Len(arrays[handler.ops.array])
      /\ SubSeq(arrays[handler.ops.array], 1, handler.ops.len) = inner /\ Mirrors(inner, made)
    BY <1>1 DEF Mirrored
<1>3. new = [arrays |-> memory, slice |-> slice]
    BY <1>2 DEF appendOp, Contents
<1>4. Len(inner) = handler.ops.len
    <2> DEFINE a == arrays[handler.ops.array]
    <2>1. a \in Seq(Ops)
        BY <1>1, <1>2
    <2> HIDE DEF a
    <2>2. Len(SubSeq(a, 1, handler.ops.len)) = handler.ops.len
        BY <1>2, <2>1 DEF a
    <2> QED BY <1>2, <2>2 DEF a
<1> HIDE DEF inner, made
<1>5. array \in Seq(Ops) /\ Len(array) = handler.ops.len + 1
    BY <1>2, <1>4
<1> HIDE DEF array
<1>6. memory \in Seq(Seq(Ops)) /\ Len(memory) = Len(arrays) + 1 /\ memory[Len(arrays) + 1] = array
    BY <1>1, <1>5
<1>7. Mirrors(array, Append(made, call))
    BY <1>2, MirrorsMore DEF array, made
<1>8. Mirrored(memory, newTraceHandler(memory, slice), Append(made, call))
    <2>1. SubSeq(memory[slice.array], 1, slice.len) = array
        BY <1>2, <1>5, <1>6
    <2>2. newTraceHandler(memory, slice)
            = [ops |-> slice, inner |-> array, grouped |-> GroupsOf(array) # <<>>]
        BY <2>1 DEF newTraceHandler
    <2>3. GroupsOf(array) = GroupsOf(Append(made, call))
        BY <1>7, MirroredPaths
    <2>4. slice \in [array : Nat, len : Nat] /\ slice.array \in 1..Len(memory)
          /\ slice.len <= Len(memory[slice.array])
        BY <1>1, <1>2, <1>5, <1>6
    <2> HIDE DEF memory, slice
    <2>5. (GroupsOf(array) # <<>>) \in BOOLEAN
        OBVIOUS
    <2> QED BY <1>5, <1>7, <2>1, <2>2, <2>3, <2>4, <2>5 DEF Mirrored
<1>9. ASSUME NEW g \in 1..Len(handlers) PROVE Mirrored(memory, handlers[g], calls[g])
    BY <1>1, <1>5, MoreArrays
<1> HIDE DEF memory, slice
<1>10. new.arrays = memory /\ new.slice = slice
    BY <1>3
<1> QED BY <1>6, <1>8, <1>9, <1>10 DEF made

\* What a handler writes are its own fields and those it was asked for.
LEMMA WrittenIsAsked ==
    ASSUME Derived, NEW h \in 1..Len(handlers), NEW span \in Spans \cup {NoSpan},
           NEW level, NEW list
    PROVE  LET record == [level |-> level, attrs |-> list]
           IN  Written(handlers[h], span, record)
                = Basic(level) \cup Trace(span) \cup Asked(calls[h], record)
<1> DEFINE record == [level |-> level, attrs |-> list]
           handler == handlers[h]
           made == calls[h]
           own == IF handler.grouped THEN record
                  ELSE [record EXCEPT !.attrs = renameReservedAttrs(@)]
<1>1. Mirrored(arrays, handler, made)
    BY DEF Derived
<1>2. /\ handler.grouped = (GroupsOf(made) # <<>>) /\ Mirrors(handler.inner, made)
      /\ Contents(handler.ops) = handler.inner
    BY <1>1 DEF Mirrored, Contents
<1>3. own.level = record.level /\ own.attrs = Kept(GroupsOf(made), record.attrs)
    BY <1>2 DEF Kept
<1>4. record.level = level
    OBVIOUS
<1>5. Written(handler, span, record)
        = IF span = NoSpan THEN JSON(handler.inner, own)
          ELSE JSON(<<TraceOp(span)>> \o Contents(handler.ops), own)
    BY DEF Written
<1> HIDE DEF record, own, handler, made
<1>6. CASE span = NoSpan
    <2>1. JSON(handler.inner, own) = Basic(record.level) \cup Asked(made, record)
        BY <1>2, <1>3, MirroredJSON
    <2>2. Trace(span) = {}
        BY <1>6 DEF Trace
    <2> QED BY <1>4, <1>5, <1>6, <2>1, <2>2 DEF record, handler, made
<1>7. CASE span # NoSpan
    <2>1. span # "group"
        BY <1>7, LoggingAssumption
    <2>2. JSON(<<TraceOp(span)>> \o handler.inner, own)
            = Basic(record.level) \cup Trace(span) \cup Asked(made, record)
        BY <1>2, <1>3, <1>7, <2>1, MirroredJSON
    <2> QED BY <1>2, <1>4, <1>5, <1>7, <2>2 DEF record, handler, made
<1> QED BY <1>6, <1>7

\* Initially there is one handler, without operations.
LEMMA InitInv == ASSUME Init PROVE IInv
<1> DEFINE first == [ops |-> [array |-> 1, len |-> 0], inner |-> <<>>, grouped |-> FALSE]
<1>1. arrays = <<<<>>>> /\ handlers = <<first>> /\ calls = <<<<>>>> /\ entry = NoEntry
    BY DEF Init
<1>2. <<>> \in Seq(Ops) /\ <<>> \in Seq(Calls) /\ Len(<<>>) = 0 /\ SubSeq(<<>>, 1, 0) = <<>>
    OBVIOUS
<1>3. GroupsOf(<<>>) = <<>>
    BY <1>2, NoGroups, Zenon
<1>4. Mirrors(<<>>, <<>>)
    <2>1. \A i \in 1..0 : FALSE
        OBVIOUS
    <2> QED BY <1>2, <2>1, Zenon DEF Mirrors
<1>5. first \in [ops : [array : Nat, len : Nat], inner : Seq(Ops), grouped : BOOLEAN]
    BY <1>2
<1>6. /\ arrays \in Seq(Seq(Ops)) /\ Len(arrays) = 1 /\ arrays[1] = <<>>
      /\ calls \in Seq(Seq(Calls)) /\ Len(calls) = 1 /\ calls[1] = <<>>
    BY <1>1, <1>2
<1>7. /\ handlers \in Seq([ops : [array : Nat, len : Nat], inner : Seq(Ops), grouped : BOOLEAN])
      /\ Len(handlers) = 1 /\ handlers[1] = first
    <2> HIDE DEF first
    <2> QED BY <1>1, <1>5
<1>8. Mirrored(arrays, first, <<>>)
    <2>1. /\ first.ops.array = 1 /\ first.ops.len = 0 /\ first.inner = <<>> /\ first.grouped = FALSE
        OBVIOUS
    <2>2. first.ops.array \in 1..Len(arrays) /\ first.ops.len <= Len(arrays[first.ops.array])
        BY <1>2, <1>6, <2>1
    <2>3. SubSeq(arrays[first.ops.array], 1, first.ops.len) = first.inner
        BY <1>2, <1>6, <2>1, Zenon
    <2>4. first.grouped = (GroupsOf(<<>>) # <<>>)
        BY <1>3, <2>1
    <2>5. Mirrors(first.inner, <<>>)
        BY <1>4, <2>1
    <2> HIDE DEF first
    <2> QED BY <1>5, <2>2, <2>3, <2>4, <2>5, Zenon DEF Mirrored
<1>9. \A h \in 1..Len(handlers) : Mirrored(arrays, handlers[h], calls[h])
    <2> SUFFICES ASSUME NEW h \in 1..Len(handlers) PROVE Mirrored(arrays, handlers[h], calls[h])
        OBVIOUS
    <2>1. h = 1
        BY <1>7
    <2> QED BY <1>6, <1>7, <1>8, <2>1, Zenon
<1>10. 1 \in 1..MaxHandlers
    BY LoggingAssumption
<1> QED BY <1>1, <1>6, <1>7, <1>9, <1>10 DEF IInv, Derived, Filed

\* Append adds one element and leaves the others.
LEMMA AppendedElements ==
    ASSUME NEW S, NEW s \in Seq(S), NEW e \in S
    PROVE  /\ Append(s, e) \in Seq(S) /\ Len(Append(s, e)) = Len(s) + 1
           /\ Append(s, e)[Len(s) + 1] = e
           /\ \A g \in 1..Len(s) : Append(s, e)[g] = s[g]
    OBVIOUS

\* A handler is added by one call more.
LEMMA DeriveInv ==
    ASSUME Derived, NEW h \in 1..Len(handlers), NEW op \in Ops, NEW call \in Calls,
           op.group = call.group, op.attrs = Kept(GroupsOf(calls[h]), call.attrs),
           Derive(h, op, call)
    PROVE  IInv'
<1> DEFINE T == [ops : [array : Nat, len : Nat], inner : Seq(Ops), grouped : BOOLEAN]
           new == appendOp(handlers[h].ops, op)
           handler == newTraceHandler(new.arrays, new.slice)
           made == Append(calls[h], call)
           n == Len(handlers)
<1>1. /\ n < MaxHandlers /\ arrays' = new.arrays /\ handlers' = Append(handlers, handler)
      /\ calls' = Append(calls, made) /\ entry' = NoEntry
    BY DEF Derive
<1>2. /\ new.arrays \in Seq(Seq(Ops)) /\ Mirrored(new.arrays, handler, made)
      /\ \A g \in 1..n : Mirrored(new.arrays, handlers[g], calls[g])
    BY DerivedMirrors
<1>3. /\ handlers \in Seq(T) /\ calls \in Seq(Seq(Calls)) /\ n \in 1..MaxHandlers
      /\ Len(calls) = n /\ calls[1] = <<>> /\ calls[h] \in Seq(Calls)
    BY DEF Derived
<1>4. handler \in T
    BY <1>2 DEF Mirrored
<1>5. made \in Seq(Calls)
    BY <1>3
<1> HIDE DEF T, new, handler, made
<1>6. /\ handlers' \in Seq(T) /\ calls' \in Seq(Seq(Calls)) /\ Len(handlers') = n + 1
      /\ Len(calls') = n + 1 /\ n + 1 \in 1..MaxHandlers
      /\ handlers'[n + 1] = handler /\ calls'[n + 1] = made
      /\ \A g \in 1..n : handlers'[g] = handlers[g] /\ calls'[g] = calls[g]
    <2>1. MaxHandlers \in Nat
        BY LoggingAssumption
    <2>2. n + 1 \in 1..MaxHandlers
        BY <1>1, <1>3, <2>1
    <2>3. /\ handlers' \in Seq(T) /\ Len(handlers') = n + 1 /\ handlers'[n + 1] = handler
          /\ \A g \in 1..n : handlers'[g] = handlers[g]
        <3>1. handlers \in Seq(T) /\ handler \in T
            BY <1>3, <1>4, Zenon
        <3>2. /\ Append(handlers, handler) \in Seq(T)
              /\ Len(Append(handlers, handler)) = n + 1
              /\ Append(handlers, handler)[n + 1] = handler
              /\ \A g \in 1..n : Append(handlers, handler)[g] = handlers[g]
            BY <3>1, AppendedElements
        <3> QED BY <1>1, <3>2, Zenon
    <2>4. /\ calls' \in Seq(Seq(Calls)) /\ Len(calls') = n + 1 /\ calls'[n + 1] = made
          /\ \A g \in 1..n : calls'[g] = calls[g]
        <3> DEFINE S == Seq(Calls)
        <3>1. calls \in Seq(S) /\ made \in S /\ Len(calls) = n
            BY <1>3, <1>5, Zenon
        <3> HIDE DEF S
        <3>2. /\ Append(calls, made) \in Seq(S)
              /\ Len(Append(calls, made)) = Len(calls) + 1
              /\ Append(calls, made)[Len(calls) + 1] = made
              /\ \A g \in 1..Len(calls) : Append(calls, made)[g] = calls[g]
            BY <3>1, AppendedElements
        <3> QED BY <1>1, <3>1, <3>2, Zenon DEF S
    <2> QED BY <2>2, <2>3, <2>4, Zenon
<1>7. calls'[1] = <<>>
    BY <1>3, <1>6
<1>8. ASSUME NEW g \in 1..(n + 1)
      PROVE  Mirrored(arrays', handlers'[g], calls'[g])
    <2>1. CASE g = n + 1
        BY <1>1, <1>2, <1>6, <2>1
    <2>2. CASE g \in 1..n
        BY <1>1, <1>2, <1>6, <2>2
    <2> QED BY <1>3, <2>1, <2>2
<1>9. Derived'
    BY <1>1, <1>2, <1>6, <1>7, <1>8 DEF Derived, T
<1> QED BY <1>1, <1>9 DEF IInv, Filed

\* Writing an entry leaves the handlers alone.
LEMMA HandleInv ==
    ASSUME Derived, NEW h \in 1..Len(handlers), NEW span \in Spans \cup {NoSpan},
           NEW level \in Int, level >= LevelDebug, NEW list, Handle(h, span, [level |-> level, attrs |-> list]),
           list \in Lists \/ (h = 1 /\ \E subject \in Subjects : list = AuditList(subject, span))
    PROVE  IInv'
<1> DEFINE record == [level |-> level, attrs |-> list]
<1>1. /\ UNCHANGED <<arrays, handlers, calls>>
      /\ entry' = [handler |-> h, span |-> span, record |-> record,
                   fields |-> Written(handlers[h], span, record)]
    BY DEF Handle
<1>2. Written(handlers[h], span, record)
        = Basic(level) \cup Trace(span) \cup Asked(calls[h], record)
    BY WrittenIsAsked
<1>3. Derived'
    BY <1>1 DEF Derived
<1>4. record.level = level /\ record.attrs = list
    OBVIOUS
<1> HIDE DEF record
<1>5. /\ entry'.handler = h /\ entry'.span = span /\ entry'.record = record
      /\ entry'.fields = Basic(level) \cup Trace(span) \cup Asked(calls[h], record)
    BY <1>1, <1>2
<1>6. handlers' = handlers /\ calls' = calls
    BY <1>1
<1>7. Filed'
    BY <1>1, <1>4, <1>5, <1>6 DEF Filed
<1> QED BY <1>3, <1>7 DEF IInv

\* Every step keeps the invariant.
LEMMA NextInv == ASSUME IInv, [Next]_vars PROVE IInv'
<1>0. /\ Derived /\ Filed
      /\ DOMAIN handlers = 1..Len(handlers) /\ 1 \in 1..Len(handlers)
    <2>1. Derived /\ Filed
        BY Zenon DEF IInv
    <2> DEFINE H == [ops : [array : Nat, len : Nat], inner : Seq(Ops), grouped : BOOLEAN]
    <2>2. handlers \in Seq(H) /\ Len(handlers) \in 1..MaxHandlers
        BY <2>1, Zenon DEF Derived
    <2> HIDE DEF H
    <2>3. DOMAIN handlers = 1..Len(handlers) /\ 1 \in 1..Len(handlers)
        BY <2>2
    <2> QED BY <2>1, <2>3, Zenon
<1>1. ASSUME NEW h \in DOMAIN handlers, NEW list \in Lists, WithAttrs(h, list)
      PROVE  IInv'
    <2> DEFINE kept == IF handlers[h].grouped THEN list ELSE renameReservedAttrs(list)
               op == [attrs |-> kept, group |-> ""]
               call == [attrs |-> list, group |-> ""]
    <2>1. list # <<>> /\ Derive(h, op, call)
        BY <1>1 DEF WithAttrs
    <2>2. handlers[h].grouped = (GroupsOf(calls[h]) # <<>>)
        BY <1>0 DEF Derived, Mirrored
    <2>3. kept = Kept(GroupsOf(calls[h]), list)
        BY <2>2 DEF Kept
    <2>4. kept \in Lists \cup {renameReservedAttrs(l) : l \in Lists} \cup {<<>>}
        OBVIOUS
    <2>5. call \in Calls
        BY <2>1 DEF Calls
    <2> HIDE DEF kept
    <2>6. op \in Ops
        BY <2>4 DEF Ops
    <2>7. op.group = call.group /\ op.attrs = Kept(GroupsOf(calls[h]), call.attrs)
        BY <2>3
    <2> HIDE DEF op, call
    <2> QED BY <1>0, <2>1, <2>5, <2>6, <2>7, DeriveInv
<1>2. ASSUME NEW h \in DOMAIN handlers, NEW name \in Groups, WithGroup(h, name)
      PROVE  IInv'
    <2> DEFINE none == <<>>
               op == [attrs |-> none, group |-> name]
    <2>1. name # "" /\ Derive(h, op, op)
        BY <1>2 DEF WithGroup
    <2>2. op \in Calls
        BY <2>1 DEF Calls
    <2>3. op \in Ops
        BY DEF Ops
    <2>4. Kept(GroupsOf(calls[h]), none) = none
        <3>1. DOMAIN none = {}
            OBVIOUS
        <3>2. renameReservedAttrs(none) = none
            <4>1. renameReservedAttrs(none) = [i \in {} |-> renameReserved(none[i])]
                BY <3>1, Zenon DEF renameReservedAttrs
            <4>2. none = [i \in {} |-> renameReserved(none[i])]
                OBVIOUS
            <4> QED BY <4>1, <4>2
        <3> QED BY <3>2 DEF Kept
    <2> HIDE DEF none
    <2>5. op.attrs = Kept(GroupsOf(calls[h]), op.attrs)
        BY <2>4
    <2> HIDE DEF op
    <2> QED BY <1>0, <2>1, <2>2, <2>3, <2>5, DeriveInv
<1>3. ASSUME NEW h \in DOMAIN handlers, NEW span \in Spans \cup {NoSpan}, NEW level \in Levels,
             NEW list \in Lists, Log(h, span, [level |-> level, attrs |-> list])
      PROVE  IInv'
    <2>1. level \in Int /\ Threshold \in Int /\ Threshold >= LevelDebug
        BY LoggingAssumption
        DEF ParseLevel, LevelDebug, LevelInfo, LevelWarn, LevelError, LevelCritical
    <2>2. level >= Threshold /\ Handle(h, span, [level |-> level, attrs |-> list])
        BY <1>3 DEF Log
    <2>3. level >= LevelDebug
        BY <2>1, <2>2 DEF LevelDebug
    <2> QED BY <1>0, <2>1, <2>2, <2>3, HandleInv
<1>4. ASSUME NEW subject \in Subjects, NEW span \in Spans \cup {NoSpan}, Emit(subject, span)
      PROVE  IInv'
    <2>1. Handle(1, span, [level |-> LevelInfo, attrs |-> AuditList(subject, span)])
        BY <1>4 DEF Emit, AuditList
    <2>2. LevelInfo \in Int /\ LevelInfo >= LevelDebug
        BY DEF LevelInfo, LevelDebug
    <2> QED BY <1>0, <2>1, <2>2, HandleInv
<1>5. CASE UNCHANGED vars
    <2>1. arrays' = arrays /\ handlers' = handlers /\ calls' = calls /\ entry' = entry
        BY <1>5 DEF vars
    <2> QED BY <1>0, <2>1 DEF IInv, Derived, Filed
<1> QED BY <1>1, <1>2, <1>3, <1>4, <1>5 DEF Next, Subjects

\* Every handler of the log mirrors the calls it was derived by, and every entry has the
\* fields the handler and its callers gave it.
THEOREM Invariance == Spec => []IInv
<1>1. Init => IInv
    BY InitInv
<1>2. IInv /\ [Next]_vars => IInv'
    BY NextInv
<1> QED BY <1>1, <1>2, PTL DEF Spec

-----------------------------------------------------------------------------
(* What it implies.                                                        *)

\* A list is kept empty exactly if it is empty.
LEMMA KeptEmpty ==
    ASSUME NEW path, NEW list, IsList(list)
    PROVE  (Kept(path, list) = <<>>) = (list = <<>>)
<1> DEFINE kept == renameReservedAttrs(list)
           S == ToSet(list)
<1>1. list \in Seq(S) /\ DOMAIN kept = DOMAIN list
    BY DEF IsList, renameReservedAttrs
<1>2. DOMAIN <<>> = {}
    OBVIOUS
<1>3. ASSUME kept = <<>> PROVE list = <<>>
    <2>1. DOMAIN list = {}
        BY <1>1, <1>2, <1>3, Zenon
    <2> HIDE DEF S
    <2>2. Len(list) = 0
        BY <1>1, <2>1
    <2> QED BY <1>1, <2>2
<1>4. ASSUME list = <<>> PROVE kept = <<>>
    <2>1. kept = [i \in {} |-> renameReserved(list[i])]
        BY <1>2, <1>4, Zenon DEF renameReservedAttrs
    <2>2. <<>> = [i \in {} |-> renameReserved(list[i])]
        OBVIOUS
    <2> HIDE DEF kept
    <2> QED BY <2>1, <2>2
<1> HIDE DEF kept
<1> QED BY <1>3, <1>4 DEF Kept, kept

\* Handlers have slices within their arrays, and every operation does something.
LEMMA DerivedTypes == ASSUME Derived PROVE TypeOK
<1>1. ASSUME NEW h \in DOMAIN handlers
      PROVE  /\ handlers[h].ops.array \in DOMAIN arrays
             /\ handlers[h].ops.len \in 0..Len(arrays[handlers[h].ops.array])
             /\ handlers[h].grouped \in BOOLEAN
             /\ \A i \in DOMAIN handlers[h].inner :
                 (handlers[h].inner[i].attrs = <<>>) # (handlers[h].inner[i].group = "")
    <2> DEFINE handler == handlers[h]
               made == calls[h]
    <2>1. /\ arrays \in Seq(Seq(Ops)) /\ Mirrored(arrays, handler, made)
        BY DEF Derived
    <2> HIDE DEF handler, made
    <2>2. /\ handler.ops.array \in 1..Len(arrays) /\ handler.ops.len \in Nat
          /\ handler.ops.len <= Len(arrays[handler.ops.array]) /\ handler.grouped \in BOOLEAN
          /\ Mirrors(handler.inner, made)
        BY <2>1 DEF Mirrored
    <2>3. /\ handler.ops.array \in DOMAIN arrays
          /\ handler.ops.len \in 0..Len(arrays[handler.ops.array])
        <3>1. arrays[handler.ops.array] \in Seq(Ops)
            BY <2>1, <2>2
        <3> QED BY <2>1, <2>2, <3>1
    <2>4. ASSUME NEW i \in DOMAIN handler.inner
          PROVE  (handler.inner[i].attrs = <<>>) # (handler.inner[i].group = "")
        <3>1. i \in 1..Len(made) /\ made[i] \in Calls
            BY <2>2 DEF Mirrors
        <3>2. /\ handler.inner[i].group = made[i].group
              /\ handler.inner[i].attrs = Kept(Path(made, i), made[i].attrs)
            BY <2>2, <3>1 DEF Mirrors
        <3>3. IsList(made[i].attrs) /\ (made[i].attrs = <<>>) # (made[i].group = "")
            BY <3>1, CallFacts
        <3>4. (Kept(Path(made, i), made[i].attrs) = <<>>) = (made[i].attrs = <<>>)
            BY <3>3, KeptEmpty
        <3> QED BY <3>2, <3>3, <3>4
    <2> QED BY <2>2, <2>3, <2>4 DEF handler
<1> QED BY <1>1 DEF TypeOK, Derived

\* The list of an audit record is one, and what it says of the trace is the span.
LEMMA AuditListFacts ==
    ASSUME NEW subject \in Subjects, NEW span
    PROVE  /\ IsList(AuditList(subject, span))
           /\ \A f \in Given(<<>>, AuditList(subject, span)) :
                f.key = <<"trace_id">> => f.value = span /\ span # NoSpan
<1> DEFINE members == attrs(subject, span)
           method == Plain(<<"method">>, "m")
           sub == Plain(<<"sub">>, subject)
           trace == Plain(<<"trace_id">>, span)
           S == {method, sub} \cup (IF span = NoSpan THEN {} ELSE {trace})
           first == <<method>>
           second == IF subject = "" THEN <<>> ELSE <<sub>>
           third == IF span = NoSpan THEN <<>> ELSE <<trace>>
           attr == GroupOf(<<"audit">>, members)
           list == AuditList(subject, span)
<1>1. members \in Seq(S)
    <2>1. members = (first \o second) \o third
        BY DEF attrs
    <2>2. method \in S /\ sub \in S /\ (span # NoSpan => trace \in S)
        OBVIOUS
    <2> HIDE DEF S, method, sub, trace
    <2>3. first \in Seq(S) /\ second \in Seq(S) /\ third \in Seq(S)
        <3>1. <<>> \in Seq(S)
            OBVIOUS
        <3>2. <<method>> \in Seq(S) /\ <<sub>> \in Seq(S)
            BY <2>2
        <3>3. ASSUME span # NoSpan PROVE <<trace>> \in Seq(S)
            BY <2>2, <3>3
        <3> QED BY <3>1, <3>2, <3>3, Zenon
    <2> HIDE DEF members, first, second, third
    <2> QED BY <2>1, <2>3
<1>2. ASSUME NEW i \in DOMAIN members, members[i].key = <<"trace_id">>
      PROVE  members[i].value = span /\ span # NoSpan
    <2>1. members[i] \in S
        <3> HIDE DEF members, S
        <3> QED BY <1>1
    <2>2. method.key # <<"trace_id">> /\ sub.key # <<"trace_id">> /\ trace.value = span
        BY DEF Plain
    <2> HIDE DEF members, method, sub, trace
    <2> QED BY <1>2, <2>1, <2>2
<1> HIDE DEF members
<1>3. /\ list = <<attr>> /\ attr.key = <<"audit">> /\ attr.value = "group"
      /\ attr.members = members /\ DOMAIN attr = {"key", "value", "members"}
    BY DEF AuditList, GroupOf, members
<1>4. renameReserved(attr) = attr
    <2>1. ~isReserved(attr.key)
        BY <1>3 DEF isReserved, reservedKeys
    <2> QED BY <2>1 DEF renameReserved
<1> HIDE DEF attr, list
<1>5. DOMAIN list = {1} /\ list[1] = attr
    BY <1>3
<1>6. IsList(list)
    <2> DEFINE T == ToSet(list)
               K == ToSet(attr.key)
               key == attr.key
    <2>1. attr \in T
        BY <1>5 DEF ToSet
    <2>2. "audit" \in K
        BY <1>3 DEF ToSet
    <2> HIDE DEF T, K, key
    <2>3. list \in Seq(T)
        BY <1>3, <2>1
    <2>4. key \in Seq(K) /\ key # <<>>
        BY <1>3, <2>2 DEF key
    <2> QED BY <1>3, <1>5, <2>3, <2>4 DEF IsList, T, K, key
<1>7. ASSUME NEW f \in Given(<<>>, list), f.key = <<"trace_id">>
      PROVE  f.value = span /\ span # NoSpan
    <2>1. f \in AttrFields(<<>>, attr)
        BY <1>4, <1>5 DEF Given
    <2>2. PICK i \in DOMAIN members :
            f = Field(<<>> \o attr.key, members[i].key, members[i].value)
        BY <1>3, <2>1 DEF AttrFields
    <2>3. <<>> \o attr.key # <<>>
        BY <1>3
    <2>4. f.key = members[i].key /\ f.value = members[i].value
        BY <2>2, <2>3 DEF Field, replaceAttr
    <2> QED BY <1>2, <1>7, <2>4
<1> QED BY <1>6, <1>7 DEF list

\* The attributes of an entry's record are a list.
LEMMA FiledList == ASSUME IInv, entry # NoEntry PROVE IsList(entry.record.attrs)
<1>1. CASE entry.record.attrs \in Lists
    BY <1>1, LoggingAssumption
<1>2. CASE \E subject \in Subjects : entry.record.attrs = AuditList(subject, entry.span)
    BY <1>2, AuditListFacts
<1> QED BY <1>1, <1>2 DEF IInv, Filed

\* The handler's own fields have its keys and are in no group; the others do not.
LEMMA OwnFields ==
    ASSUME IInv, entry # NoEntry
    PROVE  LET own == Basic(entry.record.level) \cup Trace(entry.span)
               asked == Asked(calls[entry.handler], entry.record)
           IN  /\ entry.fields = own \cup asked
               /\ \A f \in own : f.path = <<>> /\ ~Foreign(f)
               /\ \A f \in asked : Foreign(f)
<1>1. /\ entry.fields = Basic(entry.record.level) \cup Trace(entry.span)
                         \cup Asked(calls[entry.handler], entry.record)
      /\ entry.handler \in 1..Len(handlers)
    BY DEF IInv, Filed
<1>2. calls[entry.handler] \in Seq(Calls)
    BY <1>1 DEF IInv, Derived
<1>3. \A f \in Asked(calls[entry.handler], entry.record) : Foreign(f)
    BY <1>2, FiledList, AskedIsForeign
<1>4. ASSUME NEW f \in Basic(entry.record.level) \cup Trace(entry.span)
      PROVE  f.path = <<>> /\ f.key \in HandlerKeys
    BY DEF Basic, Trace, HandlerKeys
<1> QED BY <1>1, <1>3, <1>4 DEF Foreign

\* An entry has the attributes its own logger was given and no other's, whatever else
\* was derived from the loggers it comes from and whether or not the record is made
\* under a span.  For every tree of loggers, every list and every span.
THEOREM EntriesAreTheCallers == Spec => []EntriesAreFaithful
<1>1. IInv => EntriesAreFaithful
    <2> SUFFICES ASSUME IInv PROVE EntriesAreFaithful
        OBVIOUS
    <2>1. TypeOK
        BY DerivedTypes DEF IInv
    <2>2. ASSUME entry # NoEntry
          PROVE  {f \in entry.fields : f.path # <<>> \/ f.key \notin HandlerKeys}
                    = Asked(calls[entry.handler], entry.record)
        <3> DEFINE own == Basic(entry.record.level) \cup Trace(entry.span)
                   asked == Asked(calls[entry.handler], entry.record)
        <3>1. /\ entry.fields = own \cup asked
              /\ \A f \in own : ~Foreign(f)
              /\ \A f \in asked : Foreign(f)
            BY <2>2, OwnFields
        <3> HIDE DEF own, asked
        <3>2. {f \in entry.fields : Foreign(f)} = asked
            BY <3>1
        <3> QED BY <3>2 DEF Foreign, asked
    <2> QED BY <2>1, <2>2 DEF EntriesAreFaithful
<1> QED BY <1>1, Invariance, PTL

\* The severity of a level that is written is the highest one not above it.
LEMMA SeverityIsHighest ==
    ASSUME NEW level \in Int, level >= LevelDebug
    PROVE  LET below == {s \in DOMAIN ParseLevel : ParseLevel[s] <= level}
           IN  {s \in below : \A t \in below : ParseLevel[t] <= ParseLevel[s]} = {severityOf(level)}
<1> DEFINE Names == {"DEBUG", "INFO", "WARNING", "ERROR", "CRITICAL"}
           below == {s \in Names : ParseLevel[s] <= level}
<1>1. /\ DOMAIN ParseLevel = Names
      /\ ParseLevel["DEBUG"] = -4 /\ ParseLevel["INFO"] = 0 /\ ParseLevel["WARNING"] = 4
      /\ ParseLevel["ERROR"] = 8 /\ ParseLevel["CRITICAL"] = 12
    BY DEF ParseLevel, LevelDebug, LevelInfo, LevelWarn, LevelError, LevelCritical
<1>2. level >= -4
    BY DEF LevelDebug
<1>3. severityOf(level) = IF level < 0 THEN "DEBUG" ELSE IF level < 4 THEN "INFO"
                          ELSE IF level < 8 THEN "WARNING" ELSE IF level < 12 THEN "ERROR"
                          ELSE "CRITICAL"
    BY DEF severityOf, LevelInfo, LevelWarn, LevelError, LevelCritical
<1>4. severityOf(level) \in below /\ \A t \in below : ParseLevel[t] <= ParseLevel[severityOf(level)]
    BY <1>1, <1>2, <1>3
<1>5. \A s, t \in Names : ParseLevel[s] \in Int /\ (ParseLevel[s] = ParseLevel[t] => s = t)
    BY <1>1
<1>6. ASSUME NEW s \in below, \A t \in below : ParseLevel[t] <= ParseLevel[s]
      PROVE  s = severityOf(level)
    <2>1. ParseLevel[s] = ParseLevel[severityOf(level)]
        BY <1>4, <1>5, <1>6
    <2> QED BY <1>4, <1>5, <2>1
<1> QED BY <1>1, <1>4, <1>6

\* The fields at the top level with a key of the handler are its own.
LEMMA TopFields ==
    ASSUME IInv, entry # NoEntry, NEW key \in HandlerKeys
    PROVE  {g \in entry.fields : g.path = <<>> /\ g.key = key}
            = {g \in Basic(entry.record.level) \cup Trace(entry.span) : g.key = key}
<1> DEFINE own == Basic(entry.record.level) \cup Trace(entry.span)
           asked == Asked(calls[entry.handler], entry.record)
<1>1. /\ entry.fields = own \cup asked
      /\ \A f \in own : f.path = <<>>
      /\ \A f \in asked : Foreign(f)
    BY OwnFields
<1> HIDE DEF own, asked
<1>2. \A f \in asked : ~(f.path = <<>> /\ f.key = key)
    BY <1>1 DEF Foreign
<1>3. {g \in entry.fields : g.path = <<>> /\ g.key = key} = {g \in own : g.key = key}
    BY <1>1, <1>2
<1> QED BY <1>3 DEF own

\* The trace an audit record names inside is the one its entry is filed under.
LEMMA TracesAgree == ASSUME IInv PROVE AuditTracesAgree
<1> SUFFICES ASSUME entry # NoEntry, NEW f \in entry.fields,
                    f.path = <<"audit">>, f.key = <<"trace_id">>
             PROVE  [path |-> <<>>, key |-> keyTrace, value |-> f.value] \in entry.fields
    BY DEF AuditTracesAgree
<1> DEFINE own == Basic(entry.record.level) \cup Trace(entry.span)
           record == entry.record
           made == calls[entry.handler]
<1>1. /\ entry.fields = own \cup Asked(made, record)
      /\ \A g \in own : g.path = <<>>
    BY OwnFields
<1>2. f \in Asked(made, record)
    <2>1. f.path # <<>>
        OBVIOUS
    <2> QED BY <1>1, <2>1
<1>3. made \in Seq(Calls) /\ IsList(record.attrs)
    BY FiledList DEF IInv, Filed, Derived
<1>4. \E i \in DOMAIN record.attrs : record.attrs[i].key = <<"audit">>
    BY <1>2, <1>3, AskedIsForeign
<1>5. record.attrs \notin Lists
    BY <1>4, LoggingAssumption
<1>6. /\ entry.handler = 1
      /\ \E subject \in Subjects : record.attrs = AuditList(subject, entry.span)
    BY <1>5 DEF IInv, Filed
<1>7. made = <<>>
    BY <1>6 DEF IInv, Derived
<1>8. Asked(made, record) = Given(<<>>, record.attrs)
    <2>1. DOMAIN made = {} /\ Len(made) = 0
        <3>1. DOMAIN <<>> = {} /\ Len(<<>>) = 0
            OBVIOUS
        <3> QED BY <1>7, <3>1, Zenon
    <2>2. GroupsOf(made) = <<>>
        BY <2>1, NoGroups
    <2>3. Asked(made, record) = (UNION {Given(Path(made, i), made[i].attrs) : i \in DOMAIN made})
                                \cup Given(GroupsOf(made), record.attrs)
        BY AskedIsGiven
    <2> HIDE DEF made
    <2>4. (UNION {Given(Path(made, i), made[i].attrs) : i \in DOMAIN made}) = {}
        BY <2>1
    <2> QED BY <2>2, <2>3, <2>4
<1>9. f.value = entry.span /\ entry.span # NoSpan
    BY <1>2, <1>6, <1>8, AuditListFacts
<1>10. [path |-> <<>>, key |-> keyTrace, value |-> f.value] \in Trace(entry.span)
    BY <1>9 DEF Trace
<1> QED BY <1>1, <1>10

\* Every entry has exactly one time, severity and message at the top level, and the
\* trace exactly if there is a span, with the handler's values whatever attributes the
\* loggers and the record have; and an audit record names the trace it is filed under.
THEOREM HandlerFieldsAreItsOwn == Spec => []CloudFieldsAreTheHandlers
<1>1. IInv => CloudFieldsAreTheHandlers
    <2> SUFFICES ASSUME IInv, entry # NoEntry PROVE CloudFieldsAreTheHandlers
        BY DEF CloudFieldsAreTheHandlers
    <2> DEFINE level == entry.record.level
               span == entry.span
               own == Basic(level) \cup Trace(span)
               Top(key) == {g \in entry.fields : g.path = <<>> /\ g.key = key}
               Values(key) == {f.value : f \in Top(key)}
               below == {s \in DOMAIN ParseLevel : ParseLevel[s] <= level}
               time == [path |-> <<>>, key |-> <<"time">>, value |-> "now"]
               severity == [path |-> <<>>, key |-> <<"severity">>, value |-> severityOf(level)]
               message == [path |-> <<>>, key |-> <<"message">>, value |-> "text"]
               trace == [path |-> <<>>, key |-> keyTrace, value |-> span]
    <2>1. level \in Int /\ level >= LevelDebug
        BY DEF IInv, Filed
    <2>2. /\ <<"time">> # <<"severity">> /\ <<"time">> # <<"message">> /\ <<"time">> # keyTrace
          /\ <<"severity">> # <<"message">> /\ <<"severity">> # keyTrace
          /\ <<"message">> # keyTrace
        BY DEF keyTrace
    <2>3. own = {time, severity, message} \cup (IF span = NoSpan THEN {} ELSE {trace})
        BY DEF Basic, Trace
    <2>4. /\ time.key = <<"time">> /\ severity.key = <<"severity">>
          /\ message.key = <<"message">> /\ trace.key = keyTrace
          /\ time.value = "now" /\ severity.value = severityOf(level)
          /\ message.value = "text" /\ trace.value = span
        OBVIOUS
    <2>5. \A key \in HandlerKeys : Top(key) = {g \in own : g.key = key}
        BY TopFields
    <2>6. /\ <<"time">> \in HandlerKeys /\ <<"severity">> \in HandlerKeys
          /\ <<"message">> \in HandlerKeys /\ keyTrace \in HandlerKeys
        BY DEF HandlerKeys
    <2> HIDE DEF own, time, severity, message, trace, level, span, Top
    <2>7. /\ Top(<<"time">>) = {time} /\ Top(<<"severity">>) = {severity}
          /\ Top(<<"message">>) = {message}
          /\ Top(keyTrace) = IF span = NoSpan THEN {} ELSE {trace}
        BY <2>2, <2>3, <2>4, <2>5, <2>6
    <2>8. /\ Values(<<"time">>) = {"now"} /\ Values(<<"message">>) = {"text"}
          /\ Values(<<"severity">>) = {severityOf(level)}
          /\ Values(keyTrace) = {span} \ {NoSpan}
        BY <2>4, <2>7
    <2>9. {s \in below : \A t \in below : ParseLevel[t] <= ParseLevel[s]} = {severityOf(level)}
        BY <2>1, SeverityIsHighest
    <2>10. AuditTracesAgree
        BY TracesAgree
    <2> QED BY <2>8, <2>9, <2>10 DEF CloudFieldsAreTheHandlers, level, span, Top
<1> QED BY <1>1, Invariance, PTL
=============================================================================
