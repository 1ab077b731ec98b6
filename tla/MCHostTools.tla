------------------------------ MODULE MCHostTools ------------------------------
(***************************************************************************)
(* Instance of HostTools for TLC: small task files in several layouts, cut *)
(* off or damaged at every token; and for the file whose task is mkvhd.cmd *)
(* a sweep over sizes and options of the disk image.                       *)
(***************************************************************************)
EXTENDS HostTools

P(kind) == <<[kind |-> kind, value |-> kind]>>
S(value) == <<[kind |-> "string", value |-> value]>>
Other(kind) == <<[kind |-> kind, value |-> "1"]>> \o P("space")

\* Items with commas between them, in brackets; comma: one behind the last, too.
Listed(open, items, close, comma) ==
    P(open) \o FlattenSeq([i \in DOMAIN items |->
        items[i] \o (IF i < Len(items) \/ comma THEN P(",") ELSE <<>>)]) \o P("space") \o P(close)

Member(key, value) == S(key) \o P(":") \o value
Strings(values, comma) == Listed("[", [i \in DOMAIN values |-> S(values[i])], "]", comma)

TaskText(t, comma) ==
    Listed("{", <<Member("label", S(t.label)),
                  Member("detail", Other("literal")), Member("runs", Other("digit")),
                  Member("windows", Listed("{", <<Member("command", S("other"))>>, "}", comma)),
                  Member("command", S(t.command)),
                  Member("args", Strings(t.args, comma)),
                  Member("dependsOn", Strings(t.dependsOn, comma))>>, "}", comma)

FileText(ts, comma) ==
    Listed("{", <<Member("tasks", Listed("[", [i \in DOMAIN ts |-> TaskText(ts[i], comma)], "]", comma)),
                  Member("version", S("2.0.0"))>>, "}", comma)

T(label, command, args, dependsOn) ==
    [label |-> label, command |-> command, args |-> args, dependsOn |-> dependsOn]
File(ts, comma) == [text |-> FileText(ts, comma), tasks |-> ts]

\* A diamond with a label that names two tasks, tasks that depend on themselves
\* directly and through another, a label nobody has, and a file without the goal.
TaskLists == {
    <<T("all", "cc", <<"-o", "x">>, <<"b", "c">>), T("b", "cc", <<>>, <<"d">>),
      T("c", "cc", <<"y">>, <<"d", "none">>), T("d", "cc", <<>>, <<>>), T("d", "ld", <<>>, <<>>)>>,
    <<T("b", "cc", <<>>, <<"b">>), T("all", "cc", <<>>, <<"c", "b">>), T("c", "cc", <<>>, <<>>)>>,
    <<T("all", "cc", <<>>, <<"b">>), T("b", "cc", <<>>, <<"all">>)>>,
    <<T("b", "cc", <<>>, <<>>)>> }

Small == FileText(<<T("all", "cc", <<"x">>, <<"b">>), T("b", "cc", <<>>, <<>>)>>, FALSE)
Nothing(t) == [text |-> t, tasks |-> <<>>]

Damaged ==
    {Nothing(SubSeq(Small, 1, n)) : n \in 1 .. Len(Small) - 1}
    \cup {Nothing([Small EXCEPT ![n].kind = "unknown"]) : n \in DOMAIN Small}
    \cup {Nothing(RemoveAt(Small, n)) :
            n \in {m \in DOMAIN Small :
                      /\ Small[m].kind \in {"{", "}", "[", "]", ":"}
                      /\ m < Len(Small) => Small[m + 1].kind \notin {"literal", "digit"}}}

ImageFile == File(<<T("all", "mkvhd", <<>>, <<"vbr">>), T("vbr", "cc", <<>>, <<>>)>>, FALSE)

\* The same files with no space in them.
Dense(d) == [d EXCEPT !.text = SelectSeq(@, LAMBDA token : token.kind # "space")]
MCDense == {Dense(File(ts, FALSE)) : ts \in TaskLists}

MCDocument ==
    {File(ts, comma) : ts \in TaskLists, comma \in BOOLEAN} \cup Damaged \cup {ImageFile}

-------------------------------------------------------------------------------
A(opt, value) == <<opt :> value>>
Option(opt, n, default) == IF n = default THEN <<>> ELSE A(opt, n)

Gear == [length |-> 6, chars |-> TRUE, named |-> TRUE]

R(blocks, offset, width, spc, boot, label) ==
    Option("boot", boot, "none") \o Option("blocks", blocks, 0) \o Option("offset", offset, 0)
    \o Option("F", width, 0) \o Option("s", spc, 0)
    \o (IF label THEN A("n", Gear) ELSE <<>>) \o A("file", "image")
Fresh(r) == [old |-> 0, parted |-> <<>>, mkdosfs |-> r]
Part(type, start, end) == [status |-> 128, type |-> type, start |-> start, end |-> end]
Mk(parts) ==
    A("boot", "mbr") \o FlattenSeq([i \in DOMAIN parts |-> A("mkpart", parts[i])]) \o A("file", "image")

\* The image of tools/mkvhd.cmd.
Gears(label) == R(47820, 32, 0, 0, "vbr", label)
GearsParts == <<Part(11, 32, 95641)>>

\* Every floppy, sizes around the limits of the types and of the tables, and every
\* cluster size; jobs with one or two partitions, on new and on larger files; and
\* jobs that fail, each at another place.
Sizes == 17 .. 30 \cup {40, 41, 160, 180, 320, 360, 640, 720, 820, 1200, 1440, 1680, 1722, 2880}
         \cup 60 .. 200 \cup 1010 .. 1030 \cup 4050 .. 4130 \cup 8150 .. 8250
         \cup {16000, 32000, 33000, 33100, 65000, 66000, 131000, 261000, 266240, 266300,
               524280, 524288, 600000, 900000}

\* One more argument, which ends mkdosfs or is taken in place of an earlier one.
Amendments ==
    {A("boot", "missing"), A("boot", "short"), A("blocks", -1), A("blocks", 4000),
     A("offset", -1), A("offset", 64), A("F", 24), A("F", 32), A("s", 3), A("s", 2),
     A("n", [Gear EXCEPT !.length = 12]), A("n", [Gear EXCEPT !.chars = FALSE]),
     A("n", [length |-> 11, chars |-> TRUE, named |-> FALSE]), A("v", ""), A("file", "another"), A("missing", "F")}

BadParted ==
    {Mk(GearsParts) \o a : a \in {A("boot", "missing"), A("missing", "mkpart"),
                                   A("file", "another"), A("mklabel", "msdos")}}
    \cup {A("mkpart", GearsParts[1]), Mk(<<>>),
           Mk([i \in 1 .. 5 |-> Part(1, 32 * i, 32 * i + 32)])}

MCJob ==
    {Fresh(R(b, 0, 0, 0, "none", TRUE)) : b \in Sizes}
    \cup {Fresh(R(b, 32, w, s, "vbr", FALSE)) :
            b \in Sizes, w \in {12, 16, 32}, s \in {0, 1, 8, 128}}
    \cup {[old |-> o, parted |-> p, mkdosfs |-> r] :
            o \in {0, 95000, 100000},
            p \in {<<>>, Mk(GearsParts), Mk(<<Part(1, 32, 20000), Part(6, 20000, 95673)>>)},
            r \in {Gears(TRUE), Gears(FALSE)}}
    \cup {[old |-> 0, parted |-> Mk(p), mkdosfs |-> Gears(TRUE)] :
            p \in {<<Part(11, 0, 95641)>>, <<Part(7, 32, 95641)>>, <<Part(11, 95641, 32)>>,
                   <<Part(11, 32, 500), Part(11, 400, 95641)>>, <<Part(11, 40, 95641)>>}}
    \cup {[old |-> 0, parted |-> p, mkdosfs |-> Gears(TRUE)] : p \in BadParted}
    \cup {Fresh(r) : r \in {Gears(TRUE) \o a : a \in Amendments}
                            \cup {R(47820, 32, 0, 0, "foreign", TRUE), <<>>}}
    \cup {[old |-> o, parted |-> <<>>, mkdosfs |-> R(0, 0, 0, 0, "none", TRUE)] :
            o \in {33, 2880, 5761, 70001, 1048575}}

===============================================================================
