------------------------------ MODULE GscText ------------------------------
(***************************************************************************)
(* The text forms of the GSC protocol: the escaped "GW|name&arg|..." form  *)
(* of a command set, and the parameters of the open and go commands.       *)
(* A text is a sequence of one-character strings.                          *)
(***************************************************************************)
EXTENDS Integers, SequencesExt, FiniteSetsExt

CONSTANTS
    Char,       \* the characters, each standing for one or more bytes
    TextSets,   \* bound: the command sets that are written
    Params,     \* bound: the parameter lists a client sends with open
    GoArgs      \* bound: the argument lists of go

KeyBytes == {"K", "L", "x"}     \* stands for letters, digits and _
Hex == {"0", "2", "5", "6", "7", "C"}
NUL == "nul"

Text == Seq(Char)

Command == [name : Text, args : Seq(Text)]

(* The texts hold every character the code looks for.  A set that is       *)
(* written has a command, and the names of commands are words; the keys of *)
(* parameters are one letter here.                                         *)
ASSUME TextAssumption ==
    /\ {"\\", "&", "|", NUL, "^", "="} \cup Hex \cup KeyBytes \subseteq Char
    /\ \A set \in TextSets :
          /\ set \in Seq(Command) /\ set # <<>>
          /\ \A k \in DOMAIN set : \A i \in DOMAIN set[k].name :
                 set[k].name[i] \notin {"&", "|"}
    /\ \A list \in Params : list \in Seq([key : KeyBytes, value : Text])

VARIABLES
    job,    \* what is being converted
    text,   \* its text form
    back    \* what the text was read as

textVars == <<job, text, back>>

TextInit == job = [kind |-> "none"] /\ text = <<>> /\ back = <<>>

----------------------------------------------------------------------------
(* First position of c in s, 0 if none.                                    *)
IndexOf(s, c) ==
    LET at == {i \in DOMAIN s : s[i] = c}
    IN  IF at = {} THEN 0 ELSE Min(at)

(* strings.Split by one character.                                         *)
Split(s, c) ==
    LET split[from \in 1 .. Len(s) + 1] ==
            LET cuts == {i \in from .. Len(s) : s[i] = c}
            IN  IF cuts = {} THEN <<SubSeq(s, from, Len(s))>>
                ELSE <<SubSeq(s, from, Min(cuts) - 1)>> \o split[Min(cuts) + 1]
    IN  split[1]

(* strings.Join with one character.                                        *)
Join(parts, c) ==
    FlattenSeq([k \in DOMAIN parts |-> IF k = 1 THEN parts[k]
                                       ELSE <<c>> \o parts[k]])

(* MUTANT: the escape character itself is not escaped.                     *)
EscapeNoBackslash(ch) ==
    CASE ch = "&" -> <<"\\", "2", "6">> [] ch = "|" -> <<"\\", "7", "C">>
      [] ch = NUL -> <<"\\", "0", "0">> [] OTHER -> <<ch>>

(* argEncoder                                                              *)
Escape(ch) ==
    CASE ch = "\\" -> <<"\\", "5", "C">> [] ch = "&" -> <<"\\", "2", "6">>
      [] ch = "|" -> <<"\\", "7", "C">> [] ch = NUL -> <<"\\", "0", "0">>
      [] OTHER -> <<ch>>

EncodeArg(arg) == FlattenSeq([i \in DOMAIN arg |-> Escape(arg[i])])

(* The byte two hexadecimal digits stand for.                              *)
HexByte(h, l) ==
    LET esc == {c \in {"\\", "&", "|", NUL} : Escape(c) = <<"\\", h, l>>}
    IN  IF esc = {} THEN <<h, l>> ELSE CHOOSE c \in esc : TRUE

(* decodeArg: an escape needs two hexadecimal digits, else it is literal.  *)
DecodeArg(arg) ==
    LET dec[i \in 1 .. Len(arg) + 3] ==
            IF i > Len(arg) THEN <<>>
            ELSE IF arg[i] = "\\" /\ i + 2 <= Len(arg)
                    /\ {arg[i + 1], arg[i + 2]} \subseteq Hex
                 THEN <<HexByte(arg[i + 1], arg[i + 2])>> \o dec[i + 3]
                 ELSE <<arg[i]>> \o dec[i + 1]
    IN  dec[1]

(* Command.String and CommandFromString                                    *)
CommandString(cmd) ==
    Join(<<cmd.name>> \o [i \in DOMAIN cmd.args |-> EncodeArg(cmd.args[i])], "&")

CommandFromString(s) ==
    LET parts == Split(s, "&")
    IN  [name |-> Head(parts),
         args |-> [i \in 1 .. Len(parts) - 1 |-> DecodeArg(parts[i + 1])]]

(* CommandSet.String and CommandSetFromString, without the GW| prefix.     *)
SetString(set) == Join([i \in DOMAIN set |-> CommandString(set[i])], "|")

SetFromString(s) ==
    LET parts == Split(s, "|")
    IN  [i \in DOMAIN parts |-> CommandFromString(parts[i])]

----------------------------------------------------------------------------
(* What a client sends with open: key=value^key=value^...                  *)
ParamText(list) ==
    Join([k \in DOMAIN list |-> <<list[k].key>> \o <<"=">> \o list[k].value], "^")

(* The ^ that end a value: those before a run of key bytes and a "=".      *)
Separators(rest) ==
    {i \in 1 .. Len(rest) - 1 :
        /\ rest[i] = "^"
        /\ \E j \in i + 1 .. Len(rest) :
            /\ rest[j] = "="
            /\ \A n \in i + 1 .. j - 1 : rest[n] \in KeyBytes}

(* ParseOpenParams: the assignments to the map, in order.                  *)
ParseOpenParams(s) ==
    LET parse[from \in 1 .. Len(s) + 1] ==
            LET params == SubSeq(s, from, Len(s))
                eq == IndexOf(params, "=")
                rest == SubSeq(params, eq + 1, Len(params))
                next == Separators(rest)
                pair(v) == [key |-> SubSeq(params, 1, eq - 1), value |-> v]
            IN  IF eq <= 1 THEN <<>>
                ELSE IF next = {} THEN <<pair(rest)>>
                ELSE <<pair(SubSeq(rest, 1, Min(next) - 1))>>
                     \o parse[from + eq + Min(next)]
    IN  parse[1]

(* Go.Handle: "key=value" first, then "key:=" with the value to follow.    *)
ParseGoArgs(args) ==
    LET parse[i \in 1 .. Len(args) + 2] ==
            IF i > Len(args) THEN <<>>
            ELSE LET arg == args[i]
                     eq == IndexOf(arg, "=")
                 IN  IF eq > 0
                     THEN <<[key |-> SubSeq(arg, 1, eq - 1),
                             value |-> SubSeq(arg, eq + 1, Len(arg))]>>
                          \o parse[i + 1]
                     ELSE IF IsSuffix(<<":", "=">>, arg) /\ i < Len(args)
                     THEN <<[key |-> SubSeq(arg, 1, Len(arg) - 2),
                             value |-> args[i + 1]]>> \o parse[i + 2]
                     ELSE parse[i + 1]
    IN  parse[1]

----------------------------------------------------------------------------
WriteSet(set) ==
    /\ text = <<>>
    /\ job' = [kind |-> "set", value |-> set]
    /\ text' = SetString(set)
    /\ back' = SetFromString(text')

SendOpen(list) ==
    /\ text = <<>>
    /\ job' = [kind |-> "open", value |-> list]
    /\ text' = ParamText(list)
    /\ back' = ParseOpenParams(text')

SendGo(args) ==
    /\ text = <<>>
    /\ job' = [kind |-> "go", value |-> args]
    /\ text' = FlattenSeq(args)
    /\ back' = ParseGoArgs(args)

TextDone ==
    /\ text # <<>>
    /\ job' = [kind |-> "none"]
    /\ text' = <<>>
    /\ back' = <<>>

TextNext ==
    \/ \E set \in TextSets : WriteSet(set)
    \/ \E list \in Params : SendOpen(list)
    \/ \E args \in GoArgs : SendGo(args)
    \/ TextDone

TextSpec == TextInit /\ [][TextNext]_textVars

----------------------------------------------------------------------------
(* Properties                                                              *)

(* A command set is read back from its text, whatever its arguments hold,  *)
(* escapes, separators and zero bytes included.                            *)
SetTextRoundTrip == job.kind = "set" => back = job.value

(* A value as the client meant it: keys are not empty.                     *)
HasCaretEq(v) == \E i \in 1 .. Len(v) - 1 : v[i] = "^" /\ v[i + 1] = "="
HasPairInside(v) ==
    \E i \in DOMAIN v, j \in DOMAIN v :
        /\ i + 1 < j /\ v[i] = "^" /\ v[j] = "="
        /\ \A n \in i + 1 .. j - 1 : v[n] \in KeyBytes

OpenRead ==
    Len(back) = Len(job.value) /\ \A k \in DOMAIN back :
        back[k].key = <<job.value[k].key>> /\ back[k].value = job.value[k].value

(* The parameters of an open request are those the client sent, also with  *)
(* ^ and = inside values, unless ^ and = meet there.                       *)
OpenParamsRead ==
    job.kind = "open" /\ (\A k \in DOMAIN job.value :
        ~ HasCaretEq(job.value[k].value) /\ ~ HasPairInside(job.value[k].value))
    => OpenRead

(* Both text forms are read as they were meant.                            *)
TextRead == SetTextRoundTrip /\ OpenParamsRead

----------------------------------------------------------------------------
(* What the repository says and the code does not do.                      *)

(* route_open.go: ^ "is significant only when followed by `key=`.  Values  *)
(* may contain `^` literally."                                             *)
CaretLiteralUnlessKey ==
    job.kind = "open" /\ (\A k \in DOMAIN job.value :
        ~ HasPairInside(job.value[k].value))
    => OpenRead

(* route_open.go: values "are split via the ":=" indirection": a key:=     *)
(* argument takes the next argument as its value.                          *)
GoIndirection ==
    job.kind = "go" => \A i \in 1 .. Len(job.value) - 1 :
        IsSuffix(<<":", "=">>, job.value[i]) =>
            \E k \in DOMAIN back : back[k].value = job.value[i + 1]
=============================================================================
