---------------------------- MODULE MysqlWrapper ----------------------------
(***************************************************************************)
(* driver_trace/src/CMysqlWrapper.cpp: one object, whose methods its user  *)
(* may call in any order.  A statement leaves its result in res and the    *)
(* text of its columns in select; getResult makes a list of one column,    *)
(* "('a','b')", for the next statement.  The connection was made without   *)
(* exceptions, so that a statement that fails leaves no result, and a row  *)
(* asked for something that is no column of it has an empty text.          *)
(***************************************************************************)
EXTENDS Integers, Sequences, Functions

CONSTANTS
  Columns,      \* names of columns
  Results,      \* what statements may yield: [cols, rows], see ResultType
  NoResult      \* res of a statement that failed or that yields no rows

VARIABLES
  select,       \* names of the columns asked for, <<"*">> for all of them
  res,          \* result of the last statement
  v_fields,     \* fields named by the last call that walked a result
  v_result,     \* values it collected
  list,         \* what getResult returned last, in pieces
  source,       \* history: what v_result was collected from, see Sources
  given         \* history: what source was when list was made

wrapperVars == <<select, res, v_fields, v_result, list, source, given>>

ResultType(r) ==
  /\ r.cols \subseteq Columns
  /\ r.rows \in Seq(Range(r.rows))
  /\ \A row \in Range(r.rows) : DOMAIN row = r.cols

ASSUME ResultAssumption ==
  /\ NoResult \notin Results
  /\ \A r \in Results : ResultType(r)

Empty == ""

ASSUME ColumnAssumption == Empty \notin Columns

\* What getResult may be asked for; the default is the empty text.
Keys == Columns \cup {Empty}

Star == <<"*">>
NoList == <<>>

\* A result and the key its rows were asked for, or none.
Sources == [of : Results \cup {NoResult}, key : Keys]

Nothing == [of |-> NoResult, key |-> Empty]

Values == {Empty} \cup UNION {UNION {Range(row) : row \in Range(r.rows)} : r \in Results}

LeftParen == "("
RightParen == ")"
Quote == "'"
Comma == ","
Signs == {LeftParen, RightParen, Quote, Comma}

Selections == {<<c>> : c \in Columns} \cup {<<c, d>> : c, d \in Columns}

MysqlWrapperTypeOK ==
  /\ select \in Selections \cup {<<>>, Star}
  /\ res \in Results \cup {NoResult}
  /\ v_fields \in Seq(Selections)
  /\ v_result \in Seq(Values)
  /\ list \in Seq(Signs \cup Values)
  /\ source \in Sources /\ given \in Sources

\* The constructor.
WrapperInit ==
  /\ select = <<>>
  /\ res = NoResult
  /\ v_fields = <<>> /\ v_result = <<>>
  /\ list = NoList
  /\ source = Nothing /\ given = Nothing

-----------------------------------------------------------------------------
(***************************************************************************)
(* Statements.                                                             *)
(***************************************************************************)
Query ==
  /\ select' = Star
  /\ res' \in Results \cup {NoResult}
  /\ UNCHANGED <<v_fields, v_result, list, source, given>>

(***************************************************************************)
(* The statement put together of its parts.  " limit " + limit is not a    *)
(* text followed by a number but the text without its first limit          *)
(* characters, and the order is added when there is none: what remains     *)
(* behind the condition must be blank.  Beyond the text it is unknown.     *)
(***************************************************************************)
LimitText == <<" ", "l", "i", "m", "i", "t", " ">>

Blank(s) == Range(s) \subseteq {" "}

Accepted(ordered, limit) ==
  /\ ordered
  /\ limit \in 0 .. Len(LimitText) =>
       Blank(SubSeq(LimitText, limit + 1, Len(LimitText)))

QueryTable(columns, ordered, limit) ==
  /\ select' = columns
  /\ res' \in {NoResult} \cup IF Accepted(ordered, limit) THEN Results ELSE {}
  /\ UNCHANGED <<v_fields, v_result, list, source, given>>

\* insert, update, Delete.
Execute ==
  /\ res' = NoResult
  /\ UNCHANGED <<select, v_fields, v_result, list, source, given>>

-----------------------------------------------------------------------------
(***************************************************************************)
(* Walking a result.  strtok looks for '#' and finds the whole text of the *)
(* columns to be one field.                                                *)
(***************************************************************************)
Fields == IF select = Star THEN <<>> ELSE <<select>>

\* The result is walked for nothing that is kept.
Printed == v_fields' = Fields /\ v_result' = <<>> /\ source' = Nothing

PrintInfo ==
  /\ IF res # NoResult THEN Printed ELSE UNCHANGED <<v_fields, v_result, source>>
  /\ UNCHANGED <<select, res, list, given>>

Column(r, key) ==
  [i \in DOMAIN r.rows |-> IF key \in r.cols THEN r.rows[i][key] ELSE Empty]

\* The texts appended for the values up to the n-th, and what is returned:
\* all but the last two characters, closed by a parenthesis.
Appended(s) ==
  LET upto[n \in 0 .. Len(s)] ==
        IF n = 0 THEN <<LeftParen, Quote>>
                 ELSE upto[n - 1] \o <<s[n], Quote, Comma, Quote>>
  IN  upto[Len(s)]

Listed(s) == Append(SubSeq(Appended(s), 1, Len(Appended(s)) - 2), RightParen)

\* The list of what has been collected, whenever that was.
Lists == list' = Listed(v_result') /\ given' = source'

\* Without a key the fields are printed and nothing is collected.
GetResult ==
  /\ res # NoResult /\ select # Star
  /\ Printed /\ Lists
  /\ UNCHANGED <<select, res>>

\* Mutant: what was collected before stays.
GetResultOf_Uncleared(key) ==
  /\ res # NoResult /\ (select = Star \/ key # Empty)
  /\ v_fields' = <<>>
  /\ v_result' = v_result \o Column(res, key) /\ source' = [of |-> res, key |-> key]
  /\ Lists
  /\ UNCHANGED <<select, res>>

\* With a key, or without one when all columns were asked for: the rows are
\* then asked for a column without a name.
GetResultOf(key) ==
  /\ res # NoResult /\ (select = Star \/ key # Empty)
  /\ v_fields' = <<>>
  /\ v_result' = Column(res, key) /\ source' = [of |-> res, key |-> key]
  /\ Lists
  /\ UNCHANGED <<select, res>>

\* No result: the list is made of what was collected earlier.
GetResultAgain ==
  /\ res = NoResult
  /\ UNCHANGED <<select, res, v_fields, v_result, source>>
  /\ Lists

-----------------------------------------------------------------------------
WrapperNext ==
  \/ Query
  \/ \E columns \in Selections, ordered \in BOOLEAN, limit \in 0 .. Len(LimitText) + 1 :
       QueryTable(columns, ordered, limit)
  \/ Execute
  \/ PrintInfo
  \/ GetResult
  \/ \E key \in Keys : GetResultOf(key)
  \/ GetResultAgain

WrapperSpec == WrapperInit /\ [][WrapperNext]_wrapperVars

-----------------------------------------------------------------------------
\* The list of values s as a statement reads it.
InList(s) ==
  [i \in 1 .. 4 * Len(s) + 1 |->
     CASE i = 1 -> LeftParen
       [] i = 4 * Len(s) + 1 -> RightParen
       [] i % 4 = 3 -> s[(i + 1) \div 4]
       [] i % 4 = 1 /\ i \notin {1, 4 * Len(s) + 1} -> Comma
       [] i % 4 \in {0, 2} -> Quote]

(***************************************************************************)
(* CMysqlWrapper.cpp:100, 142.  Whatever was called before, and whatever   *)
(* failed: the list the last getResult returned names, in order, the value *)
(* every row of one result has in the column it was asked for - empty      *)
(* texts for a column there is not - and nothing of any other result.      *)
(* That result is the present one at the time of the call or, after a      *)
(* statement without a result, the one last walked.  Only where there was  *)
(* no row, or the walk kept nothing, is it a lone parenthesis.             *)
(***************************************************************************)
ListNamesOneColumn ==
  list # NoList =>
    list = IF given.of = NoResult \/ given.of.rows = <<>>
             THEN <<RightParen>>
             ELSE InList(Column(given.of, given.key))

=============================================================================
