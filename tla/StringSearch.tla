---------------------------- MODULE StringSearch ----------------------------
(***************************************************************************)
(* StringView::find and contains: the first place of a view in another, by *)
(* Sunday's algorithm. A table has, for each character, how far the window *)
(* moves when that character is the one behind it: up to the last place of *)
(* the character in the pattern, and nowhere when it has none.             *)
(*                                                                         *)
(* A call leaves nothing behind, so one call is a behaviour. Indices begin *)
(* at 0, as in the code, and stay below the widths it cuts them to.        *)
(***************************************************************************)
EXTENDS Integers, Sequences

CONSTANTS
    Characters,
    Texts, Patterns,  \* the views that are searched, and searched for
    MaxFrom           \* bound on the place that find begins at

ASSUME StringSearchAssumption ==
    Texts \subseteq Seq(Characters) /\ Patterns \subseteq Seq(Characters) /\ MaxFrom \in Nat

VARIABLES str,     \* what is searched: the text from the place that find was given
          substr,
          phase,   \* "table", "search", "returned"
          table,
          filled,  \* the characters of the pattern that are in the table
          pos,     \* of the window
          result   \* the place in str, or -1; find gives npos for it

searchVars == <<str, substr, phase, table, filled, pos, result>>
called == <<str, substr>>

size == Len(str)
subsize == Len(substr)
CharAt(s, i) == s[i + 1]

\* find looks whether the pattern fits before anything else.
fits(text, other, from) == from + Len(other) <= Len(text)

SearchInit ==
    \E text \in Texts, other \in Patterns, from \in 0..MaxFrom :
        /\ str = SubSeq(text, from + 1, Len(text)) /\ substr = other
        /\ phase = IF fits(text, other, from) THEN "table" ELSE "returned"
        /\ table = [c \in Characters |-> 0] /\ filled = 0
        /\ pos = 0 /\ result = -1

------------------------------------------------------------------------------
\* Mutant: the window moves to the place of the character, and not past its end.
ShiftShort(i) == subsize - i - 1

\* How far the window moves for the character at i of the pattern.
shift(i) == subsize - i

\* Mutant: the table keeps the first place of a character.
FillFirst ==
    /\ phase = "table" /\ filled < subsize
    /\ table' = [table EXCEPT ![CharAt(substr, filled)] = IF @ = 0 THEN shift(filled) ELSE @]
    /\ filled' = filled + 1
    /\ UNCHANGED <<called, phase, pos, result>>

\* SundayStringTable: a later place of a character replaces an earlier one.
Fill ==
    /\ phase = "table" /\ filled < subsize
    /\ table' = [table EXCEPT ![CharAt(substr, filled)] = shift(filled)]
    /\ filled' = filled + 1
    /\ UNCHANGED <<called, phase, pos, result>>

Filled ==
    /\ phase = "table" /\ filled = subsize
    /\ phase' = "search"
    /\ UNCHANGED <<called, table, filled, pos, result>>

------------------------------------------------------------------------------
return(r) ==
    /\ phase' = "returned" /\ result' = r
    /\ UNCHANGED <<called, table, filled, pos>>

\* There is a window, and the pattern fits in it.
Window == pos < size /\ pos + subsize <= size
Matches(i) == \A k \in 0..subsize - 1 : CharAt(str, i + k) = CharAt(substr, k)
nextMatch == pos + subsize

Found == phase = "search" /\ Window /\ Matches(pos) /\ return(pos)

NotFound ==
    /\ phase = "search"
    /\ \/ ~Window
       \/ Window /\ ~Matches(pos) /\ nextMatch >= size
    /\ return(-1)

Move ==
    /\ phase = "search" /\ Window /\ ~Matches(pos) /\ nextMatch < size
    /\ pos' = pos + table[CharAt(str, nextMatch)]
    /\ UNCHANGED <<called, phase, table, filled, result>>

SearchNext == Fill \/ Filled \/ Found \/ NotFound \/ Move

\* The thread that calls runs.
SearchSpec == SearchInit /\ [][SearchNext]_searchVars /\ WF_searchVars(SearchNext)

------------------------------------------------------------------------------
SearchTypeOK ==
    /\ str \in Seq(Characters) /\ substr \in Seq(Characters)
    /\ phase \in {"table", "search", "returned"}
    /\ table \in [Characters -> 0..subsize]
    /\ filled \in 0..subsize /\ pos \in Nat
    /\ result \in {-1} \cup 0..size - 1

\* A place of the pattern, in a text that has not ended there.
PlaceOf(i) == i < size /\ i + subsize <= size /\ Matches(i)

\* What is returned is the first place of the pattern, and -1 is returned only when
\* there is none: no window that is moved over holds it, whatever the shifts skip.
FindsFirst ==
    phase = "returned" =>
        /\ result >= 0 => PlaceOf(result)
        /\ \A i \in 0..size - 1 : (result = -1 \/ i < result) => ~PlaceOf(i)

SearchInv == SearchTypeOK /\ FindsFirst

\* The window does not move: the character behind it is not in the pattern.
Spins ==
    /\ phase = "search" /\ Window /\ ~Matches(pos) /\ nextMatch < size
    /\ \A k \in 0..subsize - 1 : CharAt(substr, k) # CharAt(str, nextMatch)

\* The search ends, unless a character that the pattern has not is behind a window
\* that does not match: the window then moves by 0 for ever.
SearchEnds == <>(phase = "returned" \/ Spins)

==============================================================================
