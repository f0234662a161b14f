----------------------------- MODULE MCKeyStore -----------------------------
EXTENDS KeyStore, TLC

CONSTANTS A, B

(* Two masters whose fingerprints collide.  Indexes 0 .. 2 are not hardened, *)
(* 3 .. 5 are.                                                               *)
MCMasters == {A, B}
MCFingerprint == [m \in MCMasters |-> "fp"]

Elt(item, marker) == [item |-> item, marker |-> marker]
Text(full, elts) == [full |-> full, elts |-> elts]

Star == Elt(<<"any">>, "")
AnyPath == Text(TRUE, <<Star>>)                                   \* "m/*"
Account == Text(TRUE, <<Elt(<<"set", << <<0, 1>> >> >>, "h"),
                        Star>>)                                   \* "m/{0-1}h/*"
Below == Text(FALSE, <<Elt(<<"set", << <<0>>, <<1, 0>> >> >>, "")>>)
                                                                 \* "{0,1-0}"
Mixed == Text(TRUE, <<Elt(<<"num", 0>>, "h"),
                      Elt(<<"num", 0>>, "'")>>)                  \* "m/0h/0'"
TooBig == Text(FALSE, <<Elt(<<"num", 3>>, "")>>)                 \* "3"

MCPathTexts == {Text(TRUE, <<Elt(<<"num", 0>>, "h"), Elt(<<"num", 0>>, "")>>),
                Mixed, TooBig}                                   \* "m/0h/0"

MCTemplateLists == {<<>>, <<AnyPath, Below>>, <<AnyPath, Mixed>>, <<TooBig>>}
MCSettings == {[require |-> FALSE, default |-> <<>>],
               [require |-> TRUE, default |-> <<Account>>]}
MCClaims == {[mfp |-> "fp", path |-> <<3, 0>>]}

ReqPaths == {<<>>, <<0>>, <<1>>, <<3>>, <<0, 0>>, <<3, 0>>, <<3, 1>>}
MCRequests ==
    [id : MCMasters \X ReqPaths, mfp : {"fp"}, indexes : ReqPaths]
    \cup [id : MCMasters \X ReqPaths, mfp : {"none"}, indexes : {<<>>}]

(* Nothing, or a callback that answers with the other master's key.          *)
MCCallbacks == {<<>>} \cup
    {[id \in {<<m, <<0>>>>} |-> <<CHOOSE o \in MCMasters : o # m, <<0>>>>] :
        m \in MCMasters}
MCSymmetry == Permutations(MCMasters)
=============================================================================
