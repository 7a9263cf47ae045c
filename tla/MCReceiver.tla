------------------------------ MODULE MCReceiver ------------------------------
(* Two audio slots, one video slot that may share their sender, two ports:      *)
(* slots change key, change only the port, are switched off, or stay as they   *)
(* are.                                                                        *)
EXTENDS Receiver

CONSTANTS a, b

OneKey == {a}
TwoKeys == {a, b}
TwoPorts == {1, 2}
TwoSlots == 1 .. 2
OneVideoSlot == {1}

Conf(port, first, second, video) ==
    [port |-> port, key |-> <<first, second>>, video |-> <<video>>]

Off == Conf(1, Disabled, Disabled, Disabled)

\* Off; a stream that moves to the other slot, with the socket kept, and that
\* stays in its slot while the port changes.
KeptConfigs == {Off, Conf(1, a, Disabled, a), Conf(1, Disabled, a, Disabled),
                Conf(2, a, Disabled, a)}

\* Off; one stream to a slot; the streams exchanged on another port.
ThreeConfigs == {Off, Conf(1, a, b, b), Conf(2, b, a, b)}

=============================================================================
