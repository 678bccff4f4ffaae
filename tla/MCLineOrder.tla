----------------------------- MODULE MCLineOrder -----------------------------
(***************************************************************************)
(* Instances of LineOrder.  One family of command lines is short and mixes *)
(* all forms of words in any order; the other has the options that say how *)
(* lines are ordered, in most combinations.  The lines are chosen for the  *)
(* options: words and separators for keys, numbers for -n, and so on.      *)
(***************************************************************************)
EXTENDS LineOrder

-----------------------------------------------------------------------------
(***************************************************************************)
(* Words                                                                   *)
(***************************************************************************)

Pos(field, char, mods) == [field |-> field, char |-> char, mods |-> mods]
F(field) == Pos(field, Absent, <<>>)
NoKey == <<Pos(NoNumber, Absent, <<>>)>>

Plain_ == [form |-> "operand", letters |-> <<>>, attached |-> None, key |-> NoKey,
           sign |-> 1, number |-> NoNumber, scale |-> 1, separator |-> NoNumber, mode |-> None, check |-> None]
Options_(letters) == [Plain_ EXCEPT !.form = "options", !.letters = letters]
Attached(letters, value) == [Options_(letters) EXCEPT !.attached = value]
KeyWord(text) == [Plain_ EXCEPT !.key = text]
Obsolete(form, pos) == [Plain_ EXCEPT !.form = form, !.key = <<pos>>]
Sized(word, sign, n, scale) == [word EXCEPT !.sign = sign, !.number = n, !.scale = scale]

\* A word is looked up by its name, case by case.
OrderingNames == {"-n", "-g", "-h", "-M", "-V", "-R", "-f", "-d", "-i", "-b", "-r", "-s", "-u", "-z",
                  "--debug"}
OrderingWord(w) ==
  Options_(<<CASE w = "-n" -> "n" [] w = "-g" -> "g" [] w = "-h" -> "h" [] w = "-M" -> "M"
               [] w = "-V" -> "V" [] w = "-R" -> "R" [] w = "-f" -> "f" [] w = "-d" -> "d"
               [] w = "-i" -> "i" [] w = "-b" -> "b" [] w = "-r" -> "r" [] w = "-s" -> "s"
               [] w = "-u" -> "u" [] w = "-z" -> "z" [] w = "--debug" -> "debug">>)

KeyNames ==
  {"1,1", "2", "2,2", "2,2b", "1.2,2.1b", "1,1r", "1,1f", "1,1fr", "1,1V", "2,2n", "1d,2", "1.0,1.0",
   "2,1", "0", "1,1z", "1,", "1,2,3", "9999", "1,1nV", "2.9n", "1b,1"}
KeyText_(k) ==
  CASE k = "1,1"  -> <<F(1), F(1)>>
    [] k = "2"    -> <<F(2)>>
    [] k = "2,2"  -> <<F(2), F(2)>>
    [] k = "2,2b" -> <<F(2), Pos(2, Absent, <<"b">>)>>
    [] k = "1.2,2.1b" -> <<Pos(1, 2, <<>>), Pos(2, 1, <<"b">>)>>
    [] k = "1,1r" -> <<F(1), Pos(1, Absent, <<"r">>)>>
    [] k = "1,1f" -> <<F(1), Pos(1, Absent, <<"f">>)>>
    [] k = "1,1fr" -> <<F(1), Pos(1, Absent, <<"f", "r">>)>>
    [] k = "1,1V" -> <<F(1), Pos(1, Absent, <<"V">>)>>
    [] k = "2,2n" -> <<F(2), Pos(2, Absent, <<"n">>)>>
    [] k = "1d,2" -> <<Pos(1, Absent, <<"d">>), F(2)>>
    [] k = "1.0,1.0" -> <<Pos(1, 0, <<>>), Pos(1, 0, <<>>)>>
    [] k = "2,1"  -> <<F(2), F(1)>>
    [] k = "0"    -> <<F(0)>>
    [] k = "1,1z" -> <<F(1), Pos(1, Absent, <<"z">>)>>
    [] k = "1,"   -> <<F(1), F(NoNumber)>>
    [] k = "1,2,3" -> <<F(1), F(2), F(3)>>
    [] k = "9999" -> <<F(9999)>>
    [] k = "1,1nV" -> <<F(1), Pos(1, Absent, <<"n", "V">>)>>
    [] k = "2.9n" -> <<Pos(2, 9, <<"n">>)>>
    [] k = "1b,1" -> <<Pos(1, Absent, <<"b">>), F(1)>>

\* -k and the key in one word, for the second family.
KeyOptionNames ==
  {"-k1,1", "-k1,1V", "-k1,1f", "-k1,1fr", "-k1,1nV", "-k1,1r", "-k1.0,1.0",
   "-k1.2,2.1b", "-k1b,1", "-k1d,2", "-k2", "-k2,1", "-k2,2", "-k2,2b", "-k2,2n",
   "-k2.9n"}
KeyOption(w) ==
  Attached(<<"k">>,
    CASE w = "-k1,1" -> "1,1"
      [] w = "-k1,1V" -> "1,1V"
      [] w = "-k1,1f" -> "1,1f"
      [] w = "-k1,1fr" -> "1,1fr"
      [] w = "-k1,1nV" -> "1,1nV"
      [] w = "-k1,1r" -> "1,1r"
      [] w = "-k1.0,1.0" -> "1.0,1.0"
      [] w = "-k1.2,2.1b" -> "1.2,2.1b"
      [] w = "-k1b,1" -> "1b,1"
      [] w = "-k1d,2" -> "1d,2"
      [] w = "-k2" -> "2"
      [] w = "-k2,1" -> "2,1"
      [] w = "-k2,2" -> "2,2"
      [] w = "-k2,2b" -> "2,2b"
      [] w = "-k2,2n" -> "2,2n"
      [] w = "-k2.9n" -> "2.9n")

OtherNames ==
  {"-k", "-rk", "-sn", "-nV", "+1", "+0.1", "+9999", "+0.x", "-1", "-0", "-2.1", "--", "a", "b",
   "-o", "-S", "3K", "4K", "3x", "-S4M", "-S-4095K", "-t", ":", "-t:", "-t ", "--files0-from=F", "-c", "-mC",
   "--check=quiet", "quiet", "-x", "--help", "--parallel", "--batch-size", "-T", "",
   "--sort", "--sort=numeric", "numeric", "--output="}
OtherWord(w) ==
  CASE w = "-k"   -> Options_(<<"k">>)
    [] w = "-rk"  -> Options_(<<"r", "k">>)
    [] w = "-sn"  -> Options_(<<"s", "n">>)
    [] w = "-nV"  -> Options_(<<"n", "V">>)
    [] w = "+1"   -> Sized(Obsolete("plus", F(1)), 1, 1, 1)
    [] w = "+0.1" -> Obsolete("plus", Pos(0, 1, <<>>))
    [] w = "+9999" -> Sized(Obsolete("plus", F(9999)), 1, 9999, 1)
    [] w = "+0.x" -> Obsolete("plus", Pos(0, NoNumber, <<"x">>))
    [] w = "-1"   -> Sized(Obsolete("minus", F(1)), -1, 1, 1)
    [] w = "-0"   -> Sized(Obsolete("minus", F(0)), -1, 0, 1)
    [] w = "-2.1" -> Obsolete("minus", Pos(2, 1, <<>>))
    [] w = "--"   -> [Plain_ EXCEPT !.form = "dashes"]
    [] w \in {"a", "b"} -> [Plain_ EXCEPT !.separator = 97]
    [] w = "-o"   -> Options_(<<"o">>)
    [] w = "-S"   -> Options_(<<"S">>)
    [] w = "3K"   -> Sized(Plain_, 1, 3, 1024)
    [] w = "4K"   -> Sized(Plain_, 1, 4, 1024)
    [] w = "3x"   -> Plain_
    [] w = "-S4M" -> Attached(<<"S">>, "4K")
    [] w = "-S-4095K" -> Attached(<<"S">>, "-4095K")
    [] w = "-t"   -> Options_(<<"t">>)
    [] w = ":"    -> [Plain_ EXCEPT !.separator = 58]
    [] w = "-t:"  -> Attached(<<"t">>, ":")
    [] w = "-t "  -> Attached(<<"t">>, " ")
    [] w = "--files0-from=F" -> Attached(<<"files0-from">>, "a")
    [] w = "-c"   -> Options_(<<"c">>)
    [] w = "-mC"  -> Options_(<<"m", "C">>)
    [] w = "--check=quiet" -> Attached(<<"check=">>, "quiet")
    [] w = "quiet" -> [Plain_ EXCEPT !.check = "C"]
    [] w = "-x"   -> Options_(<<"x">>)
    [] w = "--help" -> Options_(<<"help">>)
    [] w = "--parallel" -> Options_(<<"parallel">>)
    [] w = "--batch-size" -> Options_(<<"batch-size">>)
    [] w = "-T"   -> Options_(<<"T">>)
    [] w = ""     -> Plain_
    [] w = "--sort" -> Options_(<<"sort">>)
    [] w = "--sort=numeric" -> Attached(<<"sort">>, "numeric")
    [] w = "numeric" -> [Plain_ EXCEPT !.mode = "n"]
    [] w = "--output=" -> Attached(<<"o">>, "")

MCWords ==
  [w \in OrderingNames \cup KeyNames \cup KeyOptionNames \cup OtherNames \cup {" ", "-4095K"} |->
    CASE w \in OtherNames     -> OtherWord(w)
      [] w \in OrderingNames  -> OrderingWord(w)
      [] w \in KeyOptionNames -> KeyOption(w)
      [] w \in {"0", "9999"}  -> Sized(KeyWord(KeyText_(w)), 1, IF w = "0" THEN 0 ELSE 9999, 1)
      [] w \in KeyNames       -> KeyWord(KeyText_(w))
      [] w = "-4095K"         -> Sized(Plain_, -1, 4095, 1024)
      [] w = " "              -> [Plain_ EXCEPT !.separator = 32]]

-----------------------------------------------------------------------------
(***************************************************************************)
(* Command lines                                                           *)
(***************************************************************************)

Upto(words, max) == UNION {[1 .. n -> words] : n \in 0 .. max}

Mixed ==
  Upto(OtherNames \cup {"2,2n", "0", "1,1z", "1,", "1,2,3", "9999", "-k2,2n"}, 2)
    \cup Upto({"-rk", "-k", "2,2n", "+1", "-1", "-2.1", "--", "a", "b", "-o", "-sn", "-c",
               "--files0-from=F"}, 3)
    \cup Upto({"-k", "a", "--", "+1", "-1", "2,2n"}, 4)

KeyLists ==
  {<<>>, <<"-k1,1">>, <<"-k2">>, <<"-k2,2b">>, <<"-k1b,1">>, <<"-k1.2,2.1b">>, <<"-k1,1r">>, <<"-k1,1f">>,
   <<"-k1d,2">>, <<"-k1.0,1.0">>, <<"-k2,1">>, <<"-k1,1nV">>, <<"-k2,2n">>, <<"-k1,1fr">>,
   <<"-k1,1", "-k1d,2">>,
   <<"-k2,2", "-k1,1">>, <<"-k2,2b", "-k1.2,2.1b">>, <<"-k1,1V", "-k2,2n">>, <<"-k1,1f", "-k2">>,
   <<"-k2.9n", "-k1,1r">>, <<"-k2,2", "-k1b,1", "-k1d,2">>}

Globals ==
  {<<>>} \cup {<<w>> : w \in OrderingNames}
    \cup {<<v, w>> : v, w \in {"-r", "-s", "-u", "-b", "-f", "-d", "-n", "-V"}}

Ordering ==
  {s \o g \o k : s \in {<<>>, <<"-t:">>, <<"-t ">>}, g \in Globals, k \in KeyLists}
    \cup {g \o k : g \in {<<w, "-r", "-s">> : w \in {"-f", "-b", "-n"}}, k \in KeyLists}
    \cup {g \o <<w>> : g \in {<<"-r", "-u">>, <<"-r", "-b">>, <<"-u", "-b">>}, w \in OrderingNames}
    \cup {k \o g : g \in {<<"-n">>, <<"-f", "-r">>}, k \in KeyLists}

MCCommands == Mixed \cup Ordering

MCNameLists == {<<>>, <<"a">>, <<"a", "b">>, <<"a", "">>, <<"-", "b">>}

-----------------------------------------------------------------------------
(***************************************************************************)
(* Lines; a letter stands for itself, 58 is a colon                        *)
(***************************************************************************)

\* For any separator, for a colon, and for blanks.
FieldInput == << <<97, 58, 98>>, <<>>, <<32, 97, 32, 32, 98>>, <<58, 32, 65>> >>
ColonInput == << <<97, 58, 98, 58, 49>>, <<97, 58>>, <<65, 58, 32, 98>>, <<32, 58>>, <<97, 58, 66>> >>
BlankInput == << <<98, 32, 49, 48>>, <<97, 32, 57>>, <<66, 32, 49>>, <<97, 45, 32, 49>>, <<97, 32, 32>> >>
NumberInputs ==
  { << <<49, 48>>, <<57>>, <<45, 49>>, <<48, 49, 48>>, <<45, 48>> >>,
    << <<46, 53>>, <<48, 46, 53, 48>>, <<32, 43, 49>>, <<45, 46, 48, 53>>, <<97>> >>,
    << <<49, 46, 49, 46, 57>>, <<49, 46, 49>>, <<45>>, <<46>>, <<49, 46>> >> }
HumanInputs ==
  { << <<50, 75>>, <<49, 77>>, <<50, 48, 50>>, <<45, 49, 107>>, <<75>> >>,
    << <<110, 97, 110>>, <<49>>, <<120>>, <<45, 50>>, <<49, 46, 53, 75>> >> }
MonthInputs ==
  { << <<74, 97, 110>>, <<32, 100, 101, 99>>, <<74, 65, 78, 88>>, <<106, 97>>, <<109, 97, 121>> >> }
VersionInputs ==
  { << <<97, 49, 48>>, <<97, 57>>, <<97, 48, 57>>, <<97>>, <<97, 126>> >>,
    << <<97, 46, 116, 97>>, <<97, 46, 49>>, <<97>>, <<46, 97>>, <<97, 46, 98, 57>> >>,
    << <<32, 97>>, <<46, 46>>, <<>>, <<46>>, <<97, 33>> >> }
TextInputs ==
  { << <<97>>, <<65>>, <<32, 97>>, <<33, 97>>, <<97, 7>> >>,
    << <<97, 98>>, <<65, 33, 66>>, <<97>>, <<>>, <<32>> >> }

MCInputs(o) ==
  IF o.keys # <<>> THEN {FieldInput, IF o.separator = 58 THEN ColonInput ELSE BlankInput}
  ELSE CASE o.mode = "n" -> NumberInputs
         [] o.mode \in {"g", "h"} -> NumberInputs \cup HumanInputs
         [] o.mode = "M" -> MonthInputs
         [] o.mode = "V" -> VersionInputs
         [] OTHER -> TextInputs

\* Some texts have the same digest.
MCDigest(text) == (Len(text) * 2 + (IF text = <<>> THEN 0 ELSE text[1])) % 3
MCGarbage == 7

=============================================================================
