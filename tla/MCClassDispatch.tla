--------------------------- MODULE MCClassDispatch ---------------------------
(* The dispatchers of the repository (script, core, wallet, psbt), and those  *)
(* that its tests derive from them for a coin with another MAX_MONEY          *)
(* (tests/test_core.py, test_MoneyRangeCustomParams).                         *)
EXTENDS ClassDispatch, TLC

\* The script, core, wallet and psbt dispatchers of Bitcoin, the wallet one of
\* its testnet; the core and wallet dispatchers of the second coin.
Bitcoin == {"ScriptBitcoin", "CoreBitcoin", "WalletBitcoin", "WalletTestnet", "PSBTBitcoin"}
HighMax == {"CoreHighMax", "WalletHighMax"}
TwoCoins == Bitcoin \cup HighMax
BaseDispatchers == {"WalletCoin"}

MCIdentities == {"script", "core", "wallet", "psbt"}

MCIdentity ==
    [d \in Dispatchers \cup Bases |->
        CASE d = "ScriptBitcoin" -> "script"
          [] d \in {"CoreBitcoin", "CoreHighMax"} -> "core"
          [] d = "PSBTBitcoin" -> "psbt"
          [] OTHER -> "wallet"]

MCDepends ==
    [d \in Dispatchers |->
        CASE d = "ScriptBitcoin" -> {}
          [] d \in {"CoreBitcoin", "CoreHighMax"} -> {"ScriptBitcoin"}
          [] d = "WalletHighMax" -> {"CoreHighMax"}
          [] OTHER -> {"CoreBitcoin"}]

\* "baseonly": a ChainParamsBase subclass whose WALLET_DISPATCHER is the base
\* dispatcher, which is the type that ChainParamsBase declares for it.
TwoCoinParams == {"mainnet", "highmax", "baseonly"}

MCWallet ==
    [p \in ParamSets |->
        CASE p = "mainnet" -> "WalletBitcoin"
          [] p = "highmax" -> "WalletHighMax"
          [] OTHER -> "WalletCoin"]
MCPsbt == [p \in ParamSets |-> "PSBTBitcoin"]

\* The coins of this instance are such as the theorems speak of.
ASSUME CoinsAssumption == CoinsShare

=============================================================================
