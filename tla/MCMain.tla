------------------------------- MODULE MCMain -------------------------------
(* An instance of Main: files with and without matches, a directory that    *)
(* contains itself, and one name of every other kind.                       *)
EXTENDS Main, TLC

MCKind ==
  "yes" :> "file" @@ "no" :> "file" @@ "late" :> "file" @@ "void" :> "file" @@
  "link" :> "link" @@ "lock" :> "locked" @@ "out" :> "output" @@ "dev" :> "device" @@
  "none" :> "missing" @@ "dir" :> "directory" @@ "sub" :> "directory" @@ "shut" :> "closed"

MCEntries == "dir" :> <<"no", "sub", "link", "late">> @@ "sub" :> <<"lock", "dir", "shut", "late">> @@
             "shut" :> <<>>

MCContent ==
  "yes" :> <<"a", "b", "", "a">> @@ "no" :> <<"b", "c">> @@ "late" :> <<"b", "a", "c", "a">> @@
  "void" :> <<>> @@ "link" :> <<"b">> @@ "out" :> <<"a">>

\* The expressions a, b and c, each with the one line it matches, and one that
\* matches the empty line too; "(" is malformed.
MCAccepts == "a" :> {"a"} @@ "b" :> {"b"} @@ "c" :> {"c"} @@ "a*" :> {"a", ""}

FlagLists == {<<>>, <<"-h">>, <<"-s">>} \cup {<<f>> : f \in {"-F", "-o", "-q", "-r", "-v"}}
             \cup {<<"-r", "-q">>, <<"-v", "-o">>, <<"-o", "-v">>, <<"-v", "-q">>, <<"-r", "-v">>, <<"-n", "-r">>}

TargetLists ==
  {<<>>, <<"yes">>, <<"no", "yes">>, <<"yes", "no">>, <<"late", "late">>, <<"none", "-", "late">>,
   <<"dir">>, <<"yes", "dir", "no">>, <<"link", "out">>, <<"dev", "shut", "lock">>}

MCCommands ==
  [flags : FlagLists, regex : {"a", "a*", "("}, by : {"word"}, targets : TargetLists,
   wordsFirst : BOOLEAN]
  \cup [flags : FlagLists, regex : {"yes", "no", "void", "link", "none"}, by : {"file", "joined"},
        targets : TargetLists, wordsFirst : BOOLEAN]
=============================================================================
