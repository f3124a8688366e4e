------------------------------- MODULE MCVfs --------------------------------
(* A home with a base file and an implicit directory above a static one, a   *)
(* private directory inside the home, and a directory that is not writable.  *)
EXTENDS Vfs

Home == <<"home">>
App == <<"home", "app">>
Key == <<"home", "key">>
A == <<"home", "a">>
B == <<"home", "a", "b">>
C == <<"home", "a", "b", "c">>
D == <<"home", "a", "d">>
MCComputed == {App \o <<"main.go">>}
MCBaseFiles == {<<"etc", "passwd">>, Home \o <<"notes">>}
MCBaseDirs == {Root, Home, <<"etc">>}
MCExtraDirs == {<<"etc", "new">>}
MCPaths ==
  MCComputed \cup MCBaseFiles \cup MCBaseDirs \cup MCExtraDirs
    \cup {App, App \o <<"x">>, Key, Key \o <<"x">>, A, B, C, D, <<"etc", "x">>}
MCWritable == {Home}
MCPrivate == {Key}
=============================================================================
