--------------------------- MODULE MCCuInsFeeder ---------------------------
(***************************************************************************)
(* Listings as cuobjdump prints them: a kernel's name and header, then     *)
(* groups of instructions, and possibly a second kernel; and as nvdisasm   *)
(* does, one header for the sections of all kernels.  The last group may   *)
(* be cut off, as in a listing saved while it was being written.           *)
(***************************************************************************)
EXTENDS CuInsFeeder

L(t) == [type |-> t, arch |-> NoArch, sel |-> TRUE]
I == L("InsCode")
P == L("InsOnly")
C == L("CodeOnly")
X == [I EXCEPT !.sel = FALSE]
Header(a) == <<L("FuncName"), [L("HeaderFlag") EXCEPT !.arch = a]>>

\* Complete groups, by family; the first of each list is the plain one.
Groups(a) ==
  CASE a = "sm_61" -> {<<C, I, I, X>>, <<C, P, C, I, I>>, <<C, X, P, C, P, C>>}
    [] OTHER -> {<<I, C>>, <<X, C>>, <<C, I, C>>}
Cut(a) ==
  CASE a = "sm_61" -> {<<C>>, <<C, I>>, <<C, I, P>>, <<C, X, I, P>>}
    [] OTHER -> {<<I>>, <<X>>}

Kernel(a) == {Header(a) \o g \o h : g \in Groups(a) \cup {<<>>}, h \in Groups(a) \cup {<<>>, <<L("Others")>>}}
CutKernel(a) == {Header(a) \o g \o h : g \in Groups(a) \cup {<<>>}, h \in Cut(a)}

MCFilters == {NoArch, "sm_61"}

MCArchs == {"sm_61", "sm_75", "sm_90"}
MCFamilyOf == [a \in MCArchs \cup {NoArch} |->
                 CASE a = "sm_61" -> "Sm5x6x" [] a = "sm_75" -> "Sm7x8x"
                   [] a = "sm_90" -> "none" [] OTHER -> "Default"]

\* Sections under one header, as nvdisasm prints them.
Sections(a) == {<<Header(a)[2], L("FuncName")>> \o g \o <<L("FuncName")>> \o h : g \in Groups(a), h \in Groups(a) \cup Cut(a)}

Short(a) == {Header(a) \o g : g \in Groups(a)}
MCTexts ==
  LET fed == MCArchs \ {"sm_90"}
      complete == UNION {Kernel(a) : a \in fed}
      cut == UNION {CutKernel(a) : a \in fed}
      two == {k \o l : k \in UNION {Short(a) : a \in fed}, l \in UNION {Short(a) \cup CutKernel(a) : a \in fed}}
  IN  complete \cup cut \cup two \cup UNION {Sections(a) : a \in fed} \cup {Header("sm_90") \o <<I>>, Header("sm_75") \o <<I, C>> \o Header("sm_90"),
                                    Header("sm_75") \o <<I, I>>}
=============================================================================
