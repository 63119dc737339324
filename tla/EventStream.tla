---------------------------- MODULE EventStream ----------------------------
(***************************************************************************)
(* How an answer travels: the Server-Sent Events that ask_stream writes    *)
(* (backend/app.py) and the reader of frontend/src/api.js, which is handed *)
(* the bytes in whatever pieces the network makes of them.                 *)
(*                                                                         *)
(* An event is written as `data: ` with its JSON, here two symbols so that *)
(* a piece may end inside it, and a blank line, here two line feeds.  A    *)
(* symbol is a pair of what it belongs to and its place there.             *)
(***************************************************************************)
EXTENDS Integers, SequencesExt

LF == <<"lf", 0>>

(* f"data: {json.dumps(event)}\n\n": JSON holds no line feed.              *)
Written(event) == << <<event, 1>>, <<event, 2>>, LF, LF >>
Wire(events)   == [i \in 1 .. 4 * Len(events) |->
                     Written(events[(i + 3) \div 4])[((i + 3) % 4) + 1]]

(* The k-th smallest of a set of places, and what s has there.             *)
Nth(places, k)  == CHOOSE i \in places : Cardinality({j \in places : j <= i}) = k
At(s, places)   == [k \in 1 .. Cardinality(places) |-> s[Nth(places, k)]]

(* Where buffer.split('\n\n') cuts.                                        *)
Cuts(text) == {i \in 1 .. Len(text) - 1 : text[i] = LF /\ text[i + 1] = LF}

(* The pieces before the last cut, and what follows it.                    *)
Lines(text) ==
    LET cuts == Cuts(text)
        from(k) == IF k = 1 THEN 1 ELSE Nth(cuts, k - 1) + 2
    IN  [k \in 1 .. Cardinality(cuts) |-> SubSeq(text, from(k), Nth(cuts, k) - 1)]

(* Mutant of Rest: lines.pop() is forgotten.                               *)
RestDropped(text) == <<>>

Rest(text) ==
    LET cuts == Cuts(text)
    IN  IF cuts = {} THEN text
        ELSE SubSeq(text, Nth(cuts, Cardinality(cuts)) + 2, Len(text))

(* A line that does not start with `data: ` is skipped.                    *)
IsData(line)     == line # <<>> /\ line[1][2] = 1
DataLines(lines) == At(lines, {k \in DOMAIN lines : IsData(lines[k])})

(* JSON.parse: it throws for an event that is cut off.                     *)
Parses(line) == line = << <<line[1][1], 1>>, <<line[1][1], 2>> >>

(* The lines before the first one that does not parse.                     *)
WholeEvents(lines) ==
    SubSeq(lines, 1, Cardinality({i \in DOMAIN lines : \A j \in 1 .. i : Parses(lines[j])}))

Events(lines) == [i \in DOMAIN lines |-> lines[i][1][1]]
=============================================================================
