------------------------------ MODULE EnvFile ------------------------------
(***************************************************************************)
(* A website's own variables on their way from the panel to the app        *)
(* (shared/env.mjs, the routes of panel/lib/sites.mjs, and writeEnvFile of *)
(* shared/deployer.mjs): they are typed as text in the manner of a .env    *)
(* file or sent value by value, saved, written into a marked block of the  *)
(* app's .env, and read from there.  The administrator may add lines to    *)
(* the same file by hand.                                                  *)
(*                                                                         *)
(* A value is a sequence of characters: "a" and "n" stand for letters (the *)
(* second one is also the escape of a new line), the others are the ones   *)
(* that are quoted, escaped or trimmed.  A text is a sequence of lines.    *)
(***************************************************************************)
EXTENDS Naturals, Sequences, SequencesExt, FiniteSetsExt

CONSTANTS Key, None, START, END,
          Value,            \* the values that are sent
          Text,             \* the texts that are typed
          Hand,             \* the lines that are added by hand
          MaxSaves, MaxEdits

VARIABLES
  saved,      \* site.env
  file,       \* the lines of .env
  saves, edits
vars == <<saved, file, saves, edits>>

BS == "\\"      DQ == "\""      SQ == "'"      Dollar == "$"      NL == "\n"
Blank == {" ", NL}
NoEnv == [k \in Key |-> None]

-----------------------------------------------------------------------------
(* Quoting.                                                                  *)

Trim(v) == LET keep == {i \in DOMAIN v : v[i] \notin Blank}
           IN IF keep = {} THEN <<>> ELSE SubSeq(v, Min(keep), Max(keep))
\* How many backslashes stand before position i.
Slashes(v, i) == Cardinality({j \in 1..(i - 1) : \A l \in j..(i - 1) : v[l] = BS})
Inner(v) == SubSeq(v, 2, Len(v) - 1)
\* closesWith: the quote at the end is not escaped.
Closes(v, q) == Len(v) >= 2 /\ v[Len(v)] = q /\ Slashes(Inner(v), Len(v) - 1) % 2 = 0

Escapes(v, i) == /\ i \in 1..(Len(v) - 1) /\ v[i] = BS
                 /\ v[i + 1] \in {BS, DQ, SQ, "n", Dollar} /\ Slashes(v, i) % 2 = 0
unescapeDouble(v) ==
  FlattenSeq([i \in DOMAIN v |-> CASE Escapes(v, i) -> <<>>
                                   [] Escapes(v, i - 1) /\ v[i] = "n" -> <<NL>>
                                   [] OTHER -> <<v[i]>>])
cleanEnvValue(input) ==
  LET v == Trim(input)
  IN CASE Len(v) >= 2 /\ v[1] = DQ /\ Closes(v, DQ) -> unescapeDouble(Inner(v))
       [] Len(v) >= 2 /\ v[1] = SQ /\ Closes(v, SQ) -> Inner(v)
       [] OTHER -> v

\* mutant: backslashes are written as they are
QuoteEscaped(v, i) == CASE v[i] = DQ -> <<BS, DQ>>
                        [] v[i] = Dollar /\ i < Len(v) /\ v[i + 1] \in {"a", "n"} -> <<BS, Dollar>>
                        [] v[i] = NL -> <<BS, "n">>
                        [] OTHER -> <<v[i]>>
Escaped(v, i) == CASE v[i] \in {BS, DQ} -> <<BS, v[i]>>
                   [] v[i] = Dollar /\ i < Len(v) /\ v[i + 1] \in {"a", "n"} -> <<BS, Dollar>>
                   [] v[i] = NL -> <<BS, "n">>
                   [] OTHER -> <<v[i]>>
quote(v) == <<DQ>> \o FlattenSeq([i \in DOMAIN v |-> Escaped(v, i)]) \o <<DQ>>

-----------------------------------------------------------------------------
(* Text.  The name of a variable and its "=" are the first element of a      *)
(* line; a line without one is an error, unless it continues a value.        *)

\* A value that opens a quote and does not close it goes on to the line where it does.
Opens(v) == v # <<>> /\ v[1] \in {DQ, SQ} /\ ~Closes(v, v[1])
Reads(s, line) ==
  IF s.key # None
    THEN LET acc == s.acc \o <<NL>> \o line
         IN [s EXCEPT !.acc = acc, !.env[s.key] = cleanEnvValue(acc),
                      !.key = IF Closes(acc, acc[1]) THEN None ELSE @]
  ELSE LET bare == Trim(line)
       IN CASE bare = <<>> \/ bare[1] \in {"#", START, END} -> s
            [] bare # <<>> /\ bare[1] \in Key ->
                 LET raw == Trim(Tail(bare))
                 IN [s EXCEPT !.env[bare[1]] = cleanEnvValue(raw),
                              !.key = IF Opens(raw) THEN bare[1] ELSE None, !.acc = raw]
            [] OTHER -> [s EXCEPT !.errors = TRUE]
parseEnvText(lines) == FoldLeft(Reads, [env |-> NoEnv, errors |-> FALSE, key |-> None, acc |-> <<>>], lines)

-----------------------------------------------------------------------------
(* The managed block.                                                        *)

First(lines, mark, from) == LET at == {i \in from..Len(lines) : lines[i] = <<mark>>}
                            IN IF at = {} THEN 0 ELSE Min(at)
renderEnvBlock(env) ==
  <<<<START>>, <<"#">>>> \o SetToSeq({<<k>> \o quote(env[k]) : k \in {l \in Key : env[l] # None}}) \o <<<<END>>>>

Head1(lines) == LET full == {i \in DOMAIN lines : Trim(lines[i]) # <<>>}
                IN IF full = {} THEN <<>> ELSE SubSeq(lines, 1, Max(full)) \o <<<<>>>>
mergeEnvFile(lines, env) ==
  LET start == First(lines, START, 1)
      end == First(lines, END, start + 1)
      block == renderEnvBlock(env)
  IN IF start = 0 THEN Head1(lines) \o block
     ELSE SubSeq(lines, 1, start - 1) \o block
          \o (IF end = 0 THEN <<>> ELSE SubSeq(lines, end + 1, Len(lines)))

\* What stands outside the block, and what stands after it.
After(lines) == LET end == First(lines, END, 1) IN IF end = 0 THEN <<>> ELSE SubSeq(lines, end + 1, Len(lines))
Outside(lines) == LET start == First(lines, START, 1)
                  IN IF start = 0 THEN lines ELSE SubSeq(lines, 1, start - 1) \o After(lines)
\* Variables that a line outside the block sets too.
shadowedKeys(lines, env) == {k \in Key : env[k] # None /\ parseEnvText(Outside(lines)).env[k] # None}

-----------------------------------------------------------------------------
(* What happens.                                                             *)

\* sanitizeEnv: every value is cleaned, those that came as text once more.
sanitizeEnv(env) == [k \in Key |-> IF env[k] = None THEN None ELSE cleanEnvValue(env[k])]
Saves(env) ==
  /\ saves < MaxSaves /\ saves' = saves + 1
  /\ saved' = sanitizeEnv(env)
  /\ UNCHANGED <<file, edits>>
\* PUT /api/sites/:id/env, as text; one bad line and nothing is saved.
SaveText(text) == ~parseEnvText(text).errors /\ Saves(parseEnvText(text).env)
\* PUT /api/sites/:id/env, one of the values that are shown changed.
SaveValue(k, v) == Saves([saved EXCEPT ![k] = v])

\* writeEnvFile (a deployment, or the job of the route above): without variables the file
\* is left alone.
Deploy ==
  /\ saved # NoEnv
  /\ file' = mergeEnvFile(file, saved)
  /\ UNCHANGED <<saved, saves, edits>>

\* By hand, at the end or at the beginning of the file.
Edit(line) ==
  /\ edits < MaxEdits /\ edits' = edits + 1
  /\ file' \in {Append(file, line), <<line>> \o file}
  /\ UNCHANGED <<saved, saves>>

Init == saved = NoEnv /\ file = <<>> /\ saves = 0 /\ edits = 0
Next ==
  \/ \E text \in Text : SaveText(text)
  \/ \E k \in Key, v \in Value \cup {None} : SaveValue(k, v)
  \/ Deploy
  \/ \E line \in Hand : Edit(line)
Spec == Init /\ [][Next]_vars

-----------------------------------------------------------------------------
(* Properties.                                                               *)

\* After a deployment the app reads from its .env exactly the values that were saved,
\* whatever characters are in them, but for the variables that a line after the block
\* sets by hand; and every line that was written by hand is there as it was, in its
\* order (quote against the parser; mergeEnvFile: "leaving every hand-written line where it was").
Full(lines) == SelectSeq(lines, LAMBDA line : Trim(line) # <<>>)
AppReadsWhatWasSavedStep ==
  Deploy => /\ Full(Outside(file')) = Full(Outside(file))
            /\ \A k \in Key : saved[k] # None =>
                 LET later == parseEnvText(After(file')).env[k]
                 IN parseEnvText(file').env[k] = IF later = None THEN saved[k] ELSE later
AppReadsWhatWasSaved == [][AppReadsWhatWasSavedStep]_vars

\* writeEnvFile logs of the variables that are also set by hand: "The panel's value wins,
\* because the block is written last."  Nothing keeps the block last.
PanelsValueWins ==
  [][Deploy => \A k \in shadowedKeys(file, saved) : parseEnvText(file').env[k] = saved[k]]_vars
=============================================================================
