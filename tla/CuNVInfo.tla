------------------------------- MODULE CuNVInfo -------------------------------
(***************************************************************************)
(* The attributes of an .nv.info section, and what the kernel assembler    *)
(* tells of a kernel (CuNVInfo, CuKernelAssembler).  An attribute is a     *)
(* name and its words.  A section in the making is a function of offsets:  *)
(* what a directive put there, the head of an attribute or a number.       *)
(***************************************************************************)
EXTENDS Integers, FiniteSets, SequencesExt

Format == [FRAME |-> "SVAL", EXIT |-> "SVAL", S2RCTAID |-> "SVAL", COOP |-> "SVAL", REGCOUNT |-> "SVAL",
           CTAIDZ |-> "NVAL", WMMA |-> "NVAL", MAXREG |-> "HVAL"]

\* The attributes the assembler generates, and those its labels may generate.
AutoGen(grouped) == {"CTAIDZ", "WMMA", "EXIT"} \cup IF grouped THEN {"S2RCTAID"} ELSE {}
ManualGen(grouped) == IF grouped THEN {} ELSE {"COOP"}
Generated(grouped) == AutoGen(grouped) \cup ManualGen(grouped)

-----------------------------------------------------------------------------
\* The numbers of T from the least on, and the elements of s there.
InOrder(T) == [k \in 1..Cardinality(T) |-> CHOOSE i \in T : Cardinality({j \in T : j < i}) = k - 1]
ElementsAt(s, T) == LET at == InOrder(T) IN [k \in DOMAIN at |-> s[at[k]]]

-----------------------------------------------------------------------------
NumberAt(items, at) == IF at \in DOMAIN items THEN items[at].num ELSE 0
IsHead(items, at) == at \in DOMAIN items /\ items[at].head \in DOMAIN Format

Unreadable == [name |-> "", val |-> <<>>]

\* decodeAttrList: an attribute behind the other, the n-th at place[n].  It
\* throws at the first place that is no attribute or is cut off.
Decode(items, size) ==
  LET words(at) == IF IsHead(items, at) /\ Format[items[at].head] = "SVAL" THEN NumberAt(items, at + 2) \div 4 ELSE 0
      value(at) == CASE Format[items[at].head] = "SVAL" -> [k \in 1..words(at) |-> NumberAt(items, at + 4 * k)]
                     [] Format[items[at].head] = "HVAL" -> <<NumberAt(items, at + 2)>>
                     [] OTHER -> <<>>
      after(at) == at + 4 * (words(at) + 1)
      whole(at) == IsHead(items, at) /\ (after(at) <= size \/ Format[items[at].head] = "NVAL")
      place[n \in Nat] == IF n = 0 THEN 0 ELSE after(place[n - 1])
      count == Cardinality({n \in 0..(size \div 4) : place[n] < size})
  IN  [k \in 1..count |-> IF whole(place[k - 1])
                          THEN [name |-> items[place[k - 1]].head, val |-> value(place[k - 1])]
                          ELSE Unreadable]

Readable(attrs) == Unreadable \notin ToSet(attrs)

\* The size of what serialize returns: the words of each attribute, its head
\* the 0th, a list's behind it.
Words(attrs) ==
  UNION {{k} \X ({0} \cup IF Format[attrs[k].name] = "SVAL" THEN DOMAIN attrs[k].val ELSE {}) : k \in DOMAIN attrs}
AttrsSize(attrs) == 4 * Cardinality(Words(attrs))

-----------------------------------------------------------------------------
Attributes(found, dict) == [k \in DOMAIN found |-> [name |-> found[k], val |-> dict[found[k]]]]

\* The generated ones the kernel has and attrs has not, in the order of names.
Missing(grouped, attrs, dict) ==
  LET names == <<"COOP", "CTAIDZ", "EXIT", "S2RCTAID", "WMMA">>
  IN  ElementsAt(names, {k \in DOMAIN names : /\ names[k] \in DOMAIN dict \cap Generated(grouped)
                                              /\ \A i \in DOMAIN attrs : attrs[i].name # names[k]})

\* Mutant: an attribute the kernel no longer has stays.
UpdateKeeping(grouped, attrs, dict) == attrs \o Attributes(Missing(grouped, attrs, dict), dict)

\* updateNVInfoFromDict: generated attributes that the kernel has not are
\* dropped, the others and the first of each generated one stay as they are;
\* the missing ones are appended.
Update(grouped, attrs, dict) ==
  LET kept == {i \in DOMAIN attrs :
                 \/ attrs[i].name \notin Generated(grouped)
                 \/ attrs[i].name \in DOMAIN dict /\ \A j \in 1..(i - 1) : attrs[j].name # attrs[i].name}
  IN  ElementsAt(attrs, kept) \o Attributes(Missing(grouped, attrs, dict), dict)

\* setRegCount: regs is a function of symbol indices.
SetRegCount(attrs, regs) ==
  [k \in DOMAIN attrs |->
     IF attrs[k].name = "REGCOUNT" /\ attrs[k].val # <<>> /\ attrs[k].val[1] \in DOMAIN regs
     THEN [name |-> attrs[k].name, val |-> <<attrs[k].val[1], regs[attrs[k].val[1]]>>]
     ELSE attrs[k]]

-----------------------------------------------------------------------------
\* The instructions that make an attribute (autoAttrExit, autoAttrS2R, autoAttrMma).
Makers == [EXIT |-> {"EXIT"}, S2RCTAID |-> {"CTAID.X", "CTAID.Z"}, CTAIDZ |-> {"CTAID.Z"}, WMMA |-> {"HMMA"}]

\* CuKernelAssembler's m_ExtraInfo after the instructions ops at the offsets at.
ExtraInfo(ops, at) ==
  LET offsets(a) == ElementsAt(at, {i \in DOMAIN ops : ops[i] \in Makers[a]})
      used == {a \in DOMAIN Makers : ToSet(ops) \cap Makers[a] # {}}
  IN  [a \in used |-> IF Format[a] = "NVAL" THEN <<>> ELSE offsets(a)]
===============================================================================
