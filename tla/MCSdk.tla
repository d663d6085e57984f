---------------------------------- MODULE MCSdk --------------------------------
(* A mainnet provider, one on Starknet, one that knows no chain id method,   *)
(* one whose URL is not valid, and the MEV protection provider.              *)
EXTENDS SDK

CONSTANTS main, stark, mute, bad, mev

MCChain == [p \in Providers |-> CASE p \in {main, mev} -> "0x1"
                                  [] p = stark -> "SN_MAIN"
                                  [] OTHER -> "0x64"]
MCFamily == [p \in Providers |-> CASE p = stark -> "starknet"
                                   [] p = mute -> "neither"
                                   [] OTHER -> "eth"]
AllOrNothing == Providers \cup {NoProvider}
Nothing == {NoProvider}
==============================================================================
