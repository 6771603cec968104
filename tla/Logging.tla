------------------------------ MODULE Logging ------------------------------
(***************************************************************************)
(* The process's log: logging/handler.go, and audit.Emit, which writes     *)
(* through it.                                                             *)
(*                                                                         *)
(* Loggers are derived from one another with attributes and groups, by any *)
(* goroutine and in any order.  A handler keeps the calls it was derived   *)
(* by in a slice, so that a record made under a span can be written with   *)
(* the trace fields below all groups.  Slices are modelled as Go has them: *)
(* a length and an array that others may share.                            *)
(*                                                                         *)
(* A key is a sequence of words (a renamed one has one more in front).  An *)
(* attribute has a value, or members if it is a group.                     *)
(***************************************************************************)
EXTENDS Integers, Sequences, SequencesExt, FiniteSets

CONSTANTS
    Lists,        \* lists of attributes for loggers and records
    Groups,       \* names of groups
    Levels,       \* levels of records
    Threshold,    \* Options.Level
    Spans,        \* valid span contexts
    NoSpan,       \* a context without one
    NoEntry,      \* nothing written yet
    MaxHandlers   \* bound on the handlers derived

Plain(key, value) == [key |-> key, value |-> value, members |-> <<>>]
GroupOf(key, members) == [key |-> key, value |-> "group", members |-> members]

VARIABLES
    arrays,    \* the backing arrays of the slices of operations
    handlers,  \* the handlers, each with its slice ops and its inner handler
    calls,     \* history: the calls each handler was derived by
    entry      \* the last entry written

vars == <<arrays, handlers, calls, entry>>

-----------------------------------------------------------------------------
(* Levels and keys.                                                        *)

LevelDebug == -4
LevelInfo == 0
LevelWarn == 4
LevelError == 8
LevelCritical == LevelError + 4

\* The level of a configured name; names are read in any case.
ParseLevel ==
    [DEBUG |-> LevelDebug, INFO |-> LevelInfo, WARNING |-> LevelWarn, ERROR |-> LevelError,
     CRITICAL |-> LevelCritical]

\* A list is a sequence of attributes with keys.
IsList(list) ==
    /\ list \in Seq(ToSet(list))
    /\ \A i \in DOMAIN list :
        /\ DOMAIN list[i] = {"key", "value", "members"}
        /\ list[i].key \in Seq(ToSet(list[i].key)) \ {<<>>}

\* The threshold is the level of a name.  Only the audit emitter uses its name for a
\* group.  A span is neither a missing one nor the mark of a group.
ASSUME LoggingAssumption ==
    /\ \A list \in Lists :
        IsList(list) /\ \A i \in DOMAIN list : list[i].key # <<"audit">>
    /\ "audit" \notin Groups
    /\ Levels \subseteq Int
    /\ \E name \in DOMAIN ParseLevel : Threshold = ParseLevel[name]
    /\ Spans \intersect {NoSpan, "group"} = {}
    /\ MaxHandlers \in Nat \ {0}

severityOf(level) ==
    IF level < LevelInfo THEN "DEBUG"
    ELSE IF level < LevelWarn THEN "INFO"
    ELSE IF level < LevelError THEN "WARNING"
    ELSE IF level < LevelCritical THEN "ERROR"
    ELSE "CRITICAL"

keyTrace == <<"logging.googleapis.com/", "trace">>
reservedKeys == {<<"time">>, <<"severity">>, <<"message">>, <<"level">>, <<"msg">>, <<"source">>}

isReserved(key) == Head(key) = "logging.googleapis.com/" \/ key \in reservedKeys

\* A reserved key is moved out of the way.
renameReserved(attr) ==
    IF isReserved(attr.key) THEN [attr EXCEPT !.key = <<"attr_">> \o @] ELSE attr

renameReservedAttrs(attrs) == [i \in DOMAIN attrs |-> renameReserved(attrs[i])]

\* replaceAttr: at the top level slog's own keys become those of Cloud Logging.
replaceAttr(path, key) ==
    CASE path = <<>> /\ key = <<"level">> -> <<"severity">>
      [] path = <<>> /\ key = <<"msg">> -> <<"message">>
      [] OTHER -> key

-----------------------------------------------------------------------------
(* slog's JSON handler: the fields of an entry, each with the groups it is *)
(* in.  An operation opens a group or adds attributes to the open one.     *)

Field(path, key, value) == [path |-> path, key |-> replaceAttr(path, key), value |-> value]

AttrFields(path, attr) ==
    IF attr.value = "group"
    THEN {Field(path \o attr.key, attr.members[i].key, attr.members[i].value) :
            i \in DOMAIN attr.members}
    ELSE {Field(path, attr.key, attr.value)}

ListFields(path, attrs) == UNION {AttrFields(path, attrs[i]) : i \in DOMAIN attrs}

GroupsOf(ops) ==
    LET open[i \in 0..Len(ops)] ==
            IF i = 0 THEN <<>>
            ELSE IF ops[i].group = "" THEN open[i - 1] ELSE Append(open[i - 1], ops[i].group)
    IN  open[Len(ops)]

JSON(ops, record) ==
    {Field(<<>>, <<"time">>, "now"), Field(<<>>, <<"level">>, severityOf(record.level)),
     Field(<<>>, <<"msg">>, "text")}
    \cup (UNION {ListFields(GroupsOf(SubSeq(ops, 1, i - 1)), ops[i].attrs) : i \in DOMAIN ops})
    \cup ListFields(GroupsOf(ops), record.attrs)

-----------------------------------------------------------------------------
(* The handler.                                                            *)

Nil == [attrs |-> <<>>, group |-> ""]

\* What a slice holds.
Contents(slice) == SubSeq(arrays[slice.array], 1, slice.len)

\* Mutant: append to the slice of the handler, which writes behind its end when
\* the array has room.
appendOp_InPlace(slice, op) ==
    IF slice.len < Len(arrays[slice.array])
    THEN [arrays |-> [arrays EXCEPT ![slice.array][slice.len + 1] = op],
          slice |-> [slice EXCEPT !.len = @ + 1]]
    ELSE [arrays |-> Append(arrays, Contents(slice) \o <<op, Nil, Nil>>),
          slice |-> [array |-> Len(arrays) + 1, len |-> slice.len + 1]]

\* The operations are copied into an array of their own.
appendOp(slice, op) ==
    [arrays |-> Append(arrays, Append(Contents(slice), op)),
     slice |-> [array |-> Len(arrays) + 1, len |-> slice.len + 1]]

\* A handler on the slice; its inner handler is built once.
newTraceHandler(memory, slice) ==
    LET ops == SubSeq(memory[slice.array], 1, slice.len)
    IN  [ops |-> slice, inner |-> ops, grouped |-> GroupsOf(ops) # <<>>]

Derive(h, op, call) ==
    LET new == appendOp(handlers[h].ops, op)
    IN  /\ Len(handlers) < MaxHandlers
        /\ arrays' = new.arrays
        /\ handlers' = Append(handlers, newTraceHandler(new.arrays, new.slice))
        /\ calls' = Append(calls, Append(calls[h], call))
        /\ entry' = NoEntry

\* Without attributes the handler is returned as it is.
WithAttrs(h, attrs) ==
    /\ attrs # <<>>
    /\ Derive(h, [attrs |-> IF handlers[h].grouped THEN attrs ELSE renameReservedAttrs(attrs),
                  group |-> ""],
              [attrs |-> attrs, group |-> ""])

WithGroup(h, name) ==
    /\ name # ""
    /\ Derive(h, [attrs |-> <<>>, group |-> name], [attrs |-> <<>>, group |-> name])

\* The trace fields; the other two go with the trace.
TraceOp(span) == [attrs |-> <<Plain(keyTrace, span)>>, group |-> ""]

\* Mutant: the trace fields are added to the derived handler.
Written_Inner(handler, span, record) ==
    LET own == IF handler.grouped THEN record
               ELSE [record EXCEPT !.attrs = renameReservedAttrs(@)]
    IN  IF span = NoSpan THEN JSON(handler.inner, own)
        ELSE JSON(Append(handler.inner, TraceOp(span)), own)

\* What Handle writes: without a span through the inner handler; with one the
\* operations are replayed over the trace fields.
Written(handler, span, record) ==
    LET own == IF handler.grouped THEN record
               ELSE [record EXCEPT !.attrs = renameReservedAttrs(@)]
    IN  IF span = NoSpan THEN JSON(handler.inner, own)
        ELSE JSON(<<TraceOp(span)>> \o Contents(handler.ops), own)

Handle(h, span, record) ==
    /\ entry' = [handler |-> h, span |-> span, record |-> record,
                 fields |-> Written(handlers[h], span, record)]
    /\ UNCHANGED <<arrays, handlers, calls>>

\* A record below the level of the logger is not made.
Log(h, span, record) ==
    /\ record.level >= Threshold
    /\ Handle(h, span, record)

-----------------------------------------------------------------------------
(* The audit emitter has a logger of its own, underived like the first one *)
(* but at level INFO whatever the process logs at: every record is made.   *)

\* The fields of a record: those that may be empty are left out when they are.
attrs(subject, span) ==
    <<Plain(<<"method">>, "m")>>
    \o (IF subject = "" THEN <<>> ELSE <<Plain(<<"sub">>, subject)>>)
    \o (IF span = NoSpan THEN <<>> ELSE <<Plain(<<"trace_id">>, span)>>)

\* A request's record is emitted in the context that its span is in.
Emit(subject, span) ==
    Handle(1, span, [level |-> LevelInfo,
                     attrs |-> <<GroupOf(<<"audit">>, attrs(subject, span))>>])

-----------------------------------------------------------------------------

Init ==
    /\ arrays = <<<<>>>>
    /\ handlers = <<[ops |-> [array |-> 1, len |-> 0], inner |-> <<>>, grouped |-> FALSE]>>
    /\ calls = <<<<>>>>
    /\ entry = NoEntry

Next ==
    \/ \E h \in DOMAIN handlers :
        \/ \E list \in Lists : WithAttrs(h, list)
        \/ \E name \in Groups : WithGroup(h, name)
        \/ \E span \in Spans \cup {NoSpan}, level \in Levels, list \in Lists :
            Log(h, span, [level |-> level, attrs |-> list])
    \/ \E subject \in {"", "u"}, span \in Spans \cup {NoSpan} : Emit(subject, span)

Spec == Init /\ [][Next]_vars

-----------------------------------------------------------------------------
(* What the log promises.                                                  *)

\* Handlers have slices within their arrays, and every operation does something.
TypeOK ==
    /\ Len(handlers) \in 1..MaxHandlers
    /\ Len(calls) = Len(handlers)
    /\ \A h \in DOMAIN handlers :
        /\ handlers[h].ops.array \in DOMAIN arrays
        /\ handlers[h].ops.len \in 0..Len(arrays[handlers[h].ops.array])
        /\ handlers[h].grouped \in BOOLEAN
        /\ \A i \in DOMAIN handlers[h].inner :
            (handlers[h].inner[i].attrs = <<>>) # (handlers[h].inner[i].group = "")

HandlerKeys == {<<"time">>, <<"severity">>, <<"message">>, keyTrace}

\* What the caller asked for: each attribute in the groups open at the call that
\* gave it, under its own name unless that is reserved and no group is open.
Asked(made, record) ==
    LET Given(path, list) ==
            UNION {AttrFields(path, IF path = <<>> THEN renameReserved(list[i]) ELSE list[i]) :
                    i \in DOMAIN list}
    IN  (UNION {Given(GroupsOf(SubSeq(made, 1, i - 1)), made[i].attrs) : i \in DOMAIN made})
        \cup Given(GroupsOf(made), record.attrs)

\* An entry has the attributes its own logger was given and no other's, whatever
\* else was derived from the loggers it comes from and in whatever order, and
\* whether or not the record is made under a span; the slices behind it stay
\* within their arrays.
EntriesAreFaithful ==
    /\ TypeOK
    /\ entry # NoEntry =>
        {f \in entry.fields : f.path # <<>> \/ f.key \notin HandlerKeys}
            = Asked(calls[entry.handler], entry.record)

\* The trace an audit record names inside is the one its entry is filed under.
AuditTracesAgree ==
    entry # NoEntry =>
        \A f \in entry.fields :
            f.path = <<"audit">> /\ f.key = <<"trace_id">> =>
                [path |-> <<>>, key |-> keyTrace, value |-> f.value] \in entry.fields

\* Every entry has exactly one time, severity and message at the top level, and the
\* trace exactly if there is a span, with the handler's value and not that of an
\* attribute: the severity is the highest one not above the record's level, and
\* the trace is the one an audit record names inside.
CloudFieldsAreTheHandlers ==
    LET Values(key) == {f.value : f \in {g \in entry.fields : g.path = <<>> /\ g.key = key}}
        below == {s \in DOMAIN ParseLevel : ParseLevel[s] <= entry.record.level}
    IN  entry # NoEntry =>
            /\ Values(<<"time">>) = {"now"}
            /\ Values(<<"message">>) = {"text"}
            /\ Values(<<"severity">>) =
                {s \in below : \A t \in below : ParseLevel[t] <= ParseLevel[s]}
            /\ Values(keyTrace) = {entry.span} \ {NoSpan}
            /\ AuditTracesAgree
=============================================================================
