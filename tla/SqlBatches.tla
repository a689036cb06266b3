------------------------------ MODULE SqlBatches ------------------------------
(***************************************************************************)
(* parseSqlScriptBatches, which splits a script that is imported into the  *)
(* statements that are sent one by one (sqlScriptBatchParser.ts).  The     *)
(* loop is the state machine: one action for each of its branches.         *)
(*                                                                         *)
(* A character is one of those the code looks for, "word" for a letter, a  *)
(* digit or _, "blank" for white space within a line, "create" for the     *)
(* words CREATE PROCEDURE and the like.  What has been read since the last *)
(* statement is the script from `from' on, so that a statement is given by *)
(* the places of its first and its last character.                         *)
(***************************************************************************)
EXTENDS Naturals, Sequences, SequencesExt

CONSTANT ScriptLength   \* bound on the length of a script; two more for dollar quotes

ASSUME SqlBatchesAssumption == ScriptLength \in Nat

VARIABLES
  script, mode,
  at,        \* i
  from,      \* where current begins
  inside,    \* what is open: nothing, a comment, a quote or a dollar quote
  batches

batchVars == <<script, mode, at, from, inside, batches>>

-----------------------------------------------------------------------------
\* What a mode tells apart, to keep the scripts few
Alphabet(m) ==
  CASE m = "default"  -> {";", "'", "-", "/", "*", "newline", "word"}
    [] m = "kingbase" -> {";", "'", "$", "word"}
    [] m = "dameng"   -> {";", "/", "newline", "create", "blank"}

Blanks    == {"blank", "newline"}
Positions == 1..Len(script)
At(p)     == IF p \in Positions THEN script[p] ELSE "end"
Open(what, by) == [what |-> what, by |-> by]
Plain == Open("code", <<>>)

SqlBatchesInit ==
  /\ mode \in {"default", "kingbase", "dameng"}
  /\ script \in BoundedSeq(Alphabet(mode),
                          IF mode = "kingbase" THEN ScriptLength + 2 ELSE ScriptLength)
  /\ at = 1 /\ from = 1
  /\ inside = Plain /\ batches = <<>>

Advances(n) == at' = at + n /\ UNCHANGED <<script, mode>>
Stays(n) == Advances(n) /\ UNCHANGED <<from, inside, batches>>

\* The places between a and b that are not blank, and what they span
Solid(a, b)   == {p \in Positions : a <= p /\ p <= b /\ script[p] \notin Blanks}
Trimmed(a, b) ==
  IF Solid(a, b) = {} THEN <<>>
  ELSE <<[first |-> CHOOSE p \in Solid(a, b) : \A q \in Solid(a, b) : p <= q,
          last  |-> CHOOSE p \in Solid(a, b) : \A q \in Solid(a, b) : q <= p]>>

-----------------------------------------------------------------------------
(* The loop, in the order of its branches.                                 *)

InLineComment ==
  /\ inside.what = "line"
  /\ Advances(1)
  /\ inside' = IF At(at) = "newline" THEN Plain ELSE inside
  /\ UNCHANGED <<from, batches>>

InBlockComment ==
  /\ inside.what = "block"
  /\ IF At(at) = "*" /\ At(at + 1) = "/"
     THEN Advances(2) /\ inside' = Plain
     ELSE Advances(1) /\ UNCHANGED inside
  /\ UNCHANGED <<from, batches>>

\* A doubled quote stands for itself.
InQuote ==
  /\ inside.what = "quote"
  /\ IF At(at) = inside.by[1]
     THEN IF At(at + 1) = At(at) THEN Stays(2)
          ELSE Advances(1) /\ inside' = Plain /\ UNCHANGED <<from, batches>>
     ELSE Stays(1)

\* startsWith
StartsWith(tag, p) == p + Len(tag) - 1 \in Positions /\ SubSeq(script, p, p + Len(tag) - 1) = tag

\* mutant: any $ closes a dollar quote
InDollarQuoteAny ==
  /\ inside.what = "dollar"
  /\ Advances(1)
  /\ inside' = IF At(at) = "$" THEN Plain ELSE inside
  /\ UNCHANGED <<from, batches>>

InDollarQuote ==
  /\ inside.what = "dollar"
  /\ IF StartsWith(inside.by, at)
     THEN Advances(Len(inside.by)) /\ inside' = Plain
     ELSE Advances(1) /\ UNCHANGED inside
  /\ UNCHANGED <<from, batches>>

\* /^\$[A-Za-z0-9_]*\$/ at p: the places where such a tag may end
TagEnds(p) == {q \in Positions : /\ p < q /\ script[p] = "$" /\ script[q] = "$"
                                 /\ \A r \in p + 1..q - 1 : script[r] = "word"}

Opens(what, by, n) ==
  /\ Advances(n)
  /\ inside' = Open(what, by)
  /\ UNCHANGED <<from, batches>>

OpensLineComment(p)  == At(p) = "-" /\ At(p + 1) = "-"
OpensBlockComment(p) == At(p) = "/" /\ At(p + 1) = "*"
OpensQuote(p)        == At(p) = "'"
OpensDollarQuote(p)  == mode = "kingbase" /\ TagEnds(p) # {}

BeginsLineComment  == inside = Plain /\ OpensLineComment(at) /\ Opens("line", <<>>, 2)
BeginsBlockComment == inside = Plain /\ OpensBlockComment(at) /\ Opens("block", <<>>, 2)
BeginsQuote        == inside = Plain /\ OpensQuote(at) /\ Opens("quote", <<At(at)>>, 1)
BeginsDollarQuote  ==
  /\ inside = Plain /\ OpensDollarQuote(at)
  /\ \E q \in TagEnds(at) : Opens("dollar", SubSeq(script, at, q), q - at + 1)

\* push: what was read is a statement unless it is blank; p is left out.
Push(p) == batches' = batches \o Trimmed(from, p - 1) /\ from' = p + 1

\* isSlashTerminator: there is nothing else on the line.
AloneOnLine(p) ==
  \A q \in Positions \ {p} :
    (\A r \in q..p - 1 \union p + 1..q : script[r] # "newline") => script[q] \in Blanks

\* isDamengRoutine of what was read from a to b
Routine(a, b) == /\ mode = "dameng" /\ Solid(a, b) # {}
                 /\ script[Trimmed(a, b)[1].first] = "create"

\* Whether the character at p ends the statement that began at a
Ends(a, p) == \/ mode = "dameng" /\ At(p) = "/" /\ AloneOnLine(p)
              \/ At(p) = ";" /\ ~Routine(a, p - 1)

EndsStatement ==
  /\ inside = Plain /\ Ends(from, at)
  /\ Advances(1) /\ Push(at)
  /\ UNCHANGED inside

\* Anything else in code, the ; of a routine among it
ReadsOn ==
  /\ inside = Plain
  /\ ~OpensLineComment(at) /\ ~OpensBlockComment(at)
  /\ ~OpensQuote(at) /\ ~OpensDollarQuote(at) /\ ~Ends(from, at)
  /\ Stays(1)

\* The last push
EndsScript ==
  /\ at = Len(script) + 1
  /\ Advances(1) /\ Push(at)
  /\ UNCHANGED inside

SqlBatchesNext ==
  \/ /\ at \in Positions
     /\ \/ InLineComment \/ InBlockComment \/ InQuote \/ InDollarQuote
        \/ BeginsLineComment \/ BeginsBlockComment \/ BeginsQuote \/ BeginsDollarQuote
        \/ EndsStatement \/ ReadsOn
  \/ EndsScript

SqlBatchesSpec == SqlBatchesInit /\ [][SqlBatchesNext]_batchVars

-----------------------------------------------------------------------------
SqlBatchesTypeOK ==
  /\ mode \in {"default", "kingbase", "dameng"}
  /\ at \in 1..Len(script) + 2 /\ from \in 1..Len(script) + 2
  /\ inside.what \in {"code", "line", "block", "quote", "dollar"}
  /\ \A n \in DOMAIN batches : batches[n].first \in Positions /\ batches[n].last \in Positions

\* The first place of a set, or the end of the script
FirstOf(S) == IF S = {} THEN Len(script) ELSE CHOOSE p \in S : \A q \in S : p <= q

\* Where the comment, the quoted text or the single character ends that begins
\* at p: a quoted text ends at a quote that is not doubled, neither by the
\* next one nor by the ones before it.
EndOf(p) ==
  CASE OpensLineComment(p) ->
         FirstOf({r \in Positions : r > p + 1 /\ script[r] = "newline"})
    [] OpensBlockComment(p) ->
         FirstOf({r \in Positions : r > p + 2 /\ script[r - 1] = "*" /\ script[r] = "/"})
    [] OpensQuote(p) ->
         FirstOf({r \in Positions : /\ r > p /\ script[r] = At(p) /\ At(r + 1) # At(p)
                                    /\ Cardinality({s \in p + 1..r - 1 : script[s] = At(p)}) % 2 = 0})
    [] OpensDollarQuote(p) ->
         LET tag == SubSeq(script, p, FirstOf(TagEnds(p)))
         IN FirstOf({r \in Positions : \E s \in p + Len(tag)..r :
                       r = s + Len(tag) - 1 /\ StartsWith(tag, s)})
    [] OTHER -> p

\* The places where a comment, a quoted text or a single character begins
LexemeAt[p \in Nat] == p = 1 \/ \E q \in 1..p - 1 : LexemeAt[q] /\ EndOf(q) = p - 1

\* Where the statement begins that p belongs to, and the ends of statements
StatementOf[p \in Nat] ==
  IF p <= 1 THEN 1
  ELSE IF LexemeAt[p - 1] /\ EndOf(p - 1) = p - 1 /\ Ends(StatementOf[p - 1], p - 1)
       THEN p ELSE StatementOf[p - 1]

Statements ==
  {Trimmed(StatementOf[p], p - 1)[1] : p \in
     {q \in 1..Len(script) + 1 : /\ q = Len(script) + 1 \/ StatementOf[q + 1] = q + 1
                                 /\ Solid(StatementOf[q], q - 1) # {}}}

\* A script is split where a statement ends and nowhere else, in comments,
\* strings and quoted bodies least of all, however they are nested, doubled or
\* left open, and no word of it is lost or sent out of order: at the end the
\* batches are the statements as they follow from where each comment, string
\* and body ends (parseSqlScriptBatches).
BatchesAreStatements ==
  /\ at = Len(script) + 2 => Range(batches) = Statements
  /\ \A n \in 1..Len(batches) - 1 : batches[n].last < batches[n + 1].first
=============================================================================
