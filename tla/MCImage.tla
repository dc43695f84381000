------------------------------- MODULE MCImage -------------------------------
(***************************************************************************)
(* Sources for TLC: data sections with all texts' references to data,      *)
(* texts with labels in every order, and lines with boundary immediates.   *)
(***************************************************************************)
EXTENDS ImageProperties

DataLabel(n) == [kind |-> "label", name |-> n]
Data(k, q) == [kind |-> k, values |-> q]

DataTokens ==
    {DataLabel("a"), DataLabel("b"), Data("byte", <<{0, 8}>>), Data("halfword", <<{1, 15}>>),
     Data("word", <<{2, 31}, {3}>>), Data("dword", <<{4, 63}>>), Data("string", <<{5}, {6}>>),
     [kind |-> "zero", count |-> 1]}

La(n) == [opcode |-> "la", rd |-> 5, label |-> n]
Lw(n) == [opcode |-> "lw", rd |-> 6, label |-> n]
Label(n) == [opcode |-> "label", label |-> n]
Beq(n) == [opcode |-> "beq", rs1 |-> 9, rs2 |-> 18, label |-> n]
Jal(n) == [opcode |-> "jal", rd |-> 1, label |-> n]
Add == [opcode |-> "add", rd |-> 5, rs1 |-> 10, rs2 |-> 17]
Li(k) == [opcode |-> "li", rd |-> 7, imm |-> k]

UpTo(S, n) == UNION {[1 .. k -> S] : k \in 0 .. n}

OneLabel == <<DataLabel("a"), Data("byte", <<{1}>>)>>

DataSources ==
    {[data |-> before \o <<DataLabel("b")>> \o after, text |-> <<Add, La("a"), Lw("b")>>] :
        before \in UpTo(DataTokens, 2), after \in UpTo(DataTokens, 2)}

TextSources ==
    {[data |-> OneLabel, text |-> t] :
        t \in UpTo({Label("x"), Label("y"), Beq("x"), Jal("x"), Beq("y"), Jal("y"), La("a"),
                    Add}, 4)}

OddSources ==
    {[data |-> OneLabel, text |-> t] :
        t \in UpTo({Label("a"), Label("x"), Beq("a"), Jal("a"), La("x"), [opcode |-> "bad"]}, 2)}

Ends(low, high) == {low - 1, low, -1, 0, 1, high, high + 1}

ImmediateLines ==
    {[opcode |-> o, rd |-> 21, rs1 |-> 10, imm |-> k] :
        o \in {"addi", "addiw", "lw", "flw", "jalr"}, k \in Ends(-2048, 2047) \cup {-1366, 1365}}
    \cup {[opcode |-> o, rd |-> 21, rs1 |-> 10, imm |-> k] : o \in {"slli", "srai"},
             k \in Ends(0, 31)}
    \cup {[opcode |-> o, rs1 |-> 21, rs2 |-> 10, imm |-> k] : o \in {"sw", "fsw"},
             k \in Ends(-2048, 2047) \cup {-1366, 1365}}
    \cup {[opcode |-> "beq", rs1 |-> 21, rs2 |-> 10, imm |-> k] :
             k \in Ends(-4096, 4092) \cup {-2048, 2048, 1364, -1364, 4096}}
    \cup {[opcode |-> o, rd |-> 21, imm |-> k] : o \in {"lui", "auipc"},
             k \in Ends(0, 1048575) \cup {699050}}
    \cup {[opcode |-> "jal", rd |-> 21, imm |-> k] :
             k \in Ends(-1048576, 1048574) \cup {-2048, 2048, 4096, 699050, -699050}}
    \cup {Li(k) : k \in (-WordReach - 1) .. WordReach}
    \cup {Add, [Add EXCEPT !.opcode = "sub"]}

ImmediateSources ==
    {[data |-> <<>>, text |-> <<i>>] : i \in ImmediateLines}
    \cup {[data |-> <<>>, text |-> <<Jal("x"), Li(k), Label("x"), Add>>] : k \in {0, 8, 9}}

Image(t) == [data |-> <<Data("halfword", <<{0}>>)>>, text |-> t]

MCSession ==
    {[sources |-> <<s>>, probes |-> 0] :
        s \in DataSources \cup TextSources \cup OddSources \cup ImmediateSources}
    \cup [sources : {<<Image(<<Add, Add>>), Image(<<Li(1)>>)>>,
                     <<Image(<<Li(9)>>), Image(<<Beq("z")>>)>>}, probes : {2}]

\* What the theorems assume of the sources they are proved for.
ASSUME SourcesAreFit == SourcesFit /\ SourcesHaveValues

MCProbeAddress == {0, 2, 10, 11, 20, MemorySize - 8, MemorySize - 3, MemorySize - 1, MemorySize}
MCProbeValue == {{0, 7, 8, 31, 63}}
===============================================================================
