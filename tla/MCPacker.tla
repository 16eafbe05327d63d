------------------------------ MODULE MCPacker ------------------------------
(***************************************************************************)
(* Small instances of Packer for TLC: all formats of the server.           *)
(***************************************************************************)
EXTENDS Packer

Chars   == {<<1, 0, 0, 0>>, <<2, 0, 0, 0>>}
Ints    == {<<1, 2, 0, 0>>, <<0, 1, 2, 1>>}
Longs   == {<<2, 1, 0, 0, 0, 0, 0, 0>>}
Strings == {<<>>, <<1>>, <<2, 1, 2>>}
Blobs   == {<<>>, <<0>>, <<2, 0, 1, 1, 0>>}

SomeValues == [c |-> Chars, i |-> Ints, l |-> Longs, s |-> Strings, b |-> Blobs]

AllFormats == {GameFormat, SessionFormat, UserFormat, TypeFormat}

NoneAdded  == {<<>>}
SomeAdded  == {<<>>, <<"i">>, <<"s">>, <<"c", "s", "l">>, <<"b", "i">>, <<"s", "b">>}
=============================================================================
