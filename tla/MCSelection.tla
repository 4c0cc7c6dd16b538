----------------------------- MODULE MCSelection -----------------------------
(***************************************************************************)
(* Versions and constraints for TLC.                                       *)
(***************************************************************************)
EXTENDS Selection

\* Identifiers in byte order: -1  0  01  10  1a  2  99999999999999999999  rc
MCIds == 1 .. 8
MCAtoi == [i \in {1, 2, 3, 4, 6} |-> CASE i = 1 -> -1 [] i = 2 -> 0 [] i = 3 -> 1
                                        [] i = 4 -> 10 [] i = 6 -> 2]
MCZeroLed == {3}

V(core, pre) == Text(FALSE, core, pre, << >>)
Built(core, pre) == Text(FALSE, core, pre, <<8>>)

\* In byte order: "+" < "-" < "." < "0".
MCTexts == <<
    V(<<0, 0, 1>>, << >>), V(<<0, 1, 0>>, << >>), V(<<0, 1, 1>>, << >>),
    V(<<1, 0, 0>>, << >>), Built(<<1, 0, 0>>, << >>),
    V(<<1, 0, 0>>, <<1>>), V(<<1, 0, 0>>, <<2>>), V(<<1, 0, 0>>, <<3>>),
    V(<<1, 0, 0>>, <<4>>), V(<<1, 0, 0>>, <<5>>), V(<<1, 0, 0>>, <<6>>),
    V(<<1, 0, 0>>, <<7>>), V(<<1, 0, 0>>, <<8>>), V(<<1, 0, 0>>, <<8, 2>>),
    V(<<1, 0, 1>>, << >>), V(<<1, 10, 0>>, << >>), V(<<1, 2, 0>>, << >>),
    V(<<1, 2, 1>>, << >>), V(<<2, 0, 0>>, << >>), V(<<2, 0, 0>>, <<8>>)>>

MCCores == {<<0, 0, 1>>, <<0, 1, 0>>, <<1, 0, 0>>, <<1, 0, 1>>, <<2, 0, 0>>}
MCOps == {"=", ">", ">=", "<", "<=", "^", "~"}

T(op, core) == Term(op, V(core, << >>))

Refused == {
    << >>, << << >> >>, <<<<T("=", <<1, 0, 0>>)>>, << >> >>,
    <<<<T("=", <<1, 0>>)>>>>, <<<<T("=", <<1, Bad, 0>>)>>>>,
    <<<<Term("^", Text(TRUE, <<1, 0, 0>>, << >>, << >>))>>>>,
    <<<<Term("=", V(<<1, 0, 0>>, <<8, 2>>))>>>>,
    <<<<Term("=", V(<<1, 0>>, <<8, 2>>))>>>>,
    <<<<Term("=", V(<<1, 0, 0>>, <<0>>))>>>>,
    <<<<Term("=", Text(FALSE, <<1, 0, 0>>, << >>, <<0>>))>>>>}

MCConstraints ==
    {<<<<T(op, core)>>>> : op \in MCOps, core \in MCCores}
      \cup {<<<<T(">=", <<1, 0, 0>>), T("<", <<2, 0, 0>>)>>>>,
            <<<<T("^", <<1, 0, 0>>), T("~", <<1, 0, 1>>)>>>>,
            <<<<T("<", <<1, 0, 0>>)>>, <<T(">=", <<2, 0, 0>>)>>>>,
            <<<<Term("", V(<<1, 0, 0>>, <<8>>))>>>>,
            <<<<Term("=", Built(<<1, 0, 0>>, <<8>>))>>>>,
            <<<<T("=>", <<1, 0, 0>>)>>>>}
      \cup Refused
=============================================================================
