------------------------------ MODULE MCBgpFsm ------------------------------
(***************************************************************************)
(* Instances of BgpFsm.                                                    *)
(***************************************************************************)
EXTENDS BgpFsm

MCOne == <<"v4">>
MCTwo == <<"v4", "v6">>

\* A neighbour that keeps to the protocol and has the higher router-id.
MCUsual(restart) ==
    [passive |-> FALSE, graceful |-> restart, holdTime |-> TRUE, localLower |-> TRUE,
     inOrder |-> TRUE]

\* Every configuration without graceful restart in which the neighbour keeps to the
\* protocol, and the usual one with an unruly neighbour and with graceful restart.
MCSession ==
    {c \in Config : ~c.graceful /\ c.inOrder}
        \cup {[MCUsual(FALSE) EXCEPT !.inOrder = FALSE], MCUsual(TRUE)}
MCPlain == {MCUsual(FALSE)}
=============================================================================
