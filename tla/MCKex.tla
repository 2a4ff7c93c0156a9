--------------------------------- MODULE MCKex ---------------------------------
(***************************************************************************)
(* Names of one byte.  The server offers just the client's algorithms; the *)
(* client's before, after and among others and empty names, and languages; *)
(* or a name that only contains the client's.  The secrets have a leading  *)
(* zero, the sign bit set, or both.                                        *)
(***************************************************************************)
EXTENDS Kex

MCSupported == <<<<11>>, <<12>>, <<13>>, <<13>>, <<14>>, <<14>>,
                 <<15>>, <<15>>, <<>>, <<>>>>

Plain == [i \in Lists |-> IF i \in Negotiated THEN <<MCSupported[i]>> ELSE <<>>]

MCOffers ==
    {Plain,
     [Plain EXCEPT ![1] = <<<<21>>, <<11>>>>, ![3] = <<<<13>>, <<21>>>>,
                   ![4] = <<<<>>, <<13>>, <<>>>>, ![10] = <<<<22>>>>],
     [Plain EXCEPT ![5] = <<<<14, 21>>>>]}

MCVersion == <<1>>
MCClientId == <<1, 2, 1>>
MCServerId == <<1, 3>>
MCEd25519 == <<12>>
MCClientKey == <<31, 5>>
MCServerKey == <<32, 6>>
MCHostKey == <<33, 7>>
MCSignature == <<34, 8>>

MCSharedSecrets == {<<0, 5>>, <<0, 40>>, <<40, 1>>}

================================================================================
