----------------------------- MODULE SignedActions -----------------------------
(***************************************************************************)
(* The actions that trade.Client sends to /exchange, what each verb puts   *)
(* into one, what its signature covers and what its envelope carries.      *)
(*                                                                         *)
(* An action is a record: the scheme of its signature, its type, its       *)
(* fields, and                                                             *)
(*   vault   (scheme "L1") the vault address in the signed hash            *)
(*   signs   (scheme "user") the fields that are hashed                    *)
(*   stamp   (scheme "user") the field that repeats the nonce              *)
(*   reply   what the caller makes of a refusal: "shown" in the result,    *)
(*           "raised" as an error, "either", "lost"                        *)
(* Amounts and names are opaque.                                           *)
(***************************************************************************)
EXTENDS Integers

CONSTANTS
    None        \* nil, and the empty vault address

-------------------------------------------------------------------------------
(***************************************************************************)
(* Signatures.  A hash is the tuple of what goes into it.                  *)
(***************************************************************************)
L1(type, fields, vault, reply) ==
    [scheme |-> "L1", type |-> type, fields |-> fields, vault |-> vault, reply |-> reply]

User(type, fields, signs, stamp, reply) ==
    [scheme |-> "user", type |-> type, fields |-> fields, signs |-> signs,
     stamp |-> stamp, reply |-> reply]

Restricted(f, S) == [x \in S |-> f[x]]

\* ActionHash: the whole action, the nonce, the vault and, when there is one, the deadline.
ActionHash(type, fields, vault, nonce, expiresAfter) ==
    <<"L1", type, fields, vault, nonce, expiresAfter>>

\* HashStructLenient: the fields of the schema and no others.
HashStructLenient(type, fields, signs) == <<"user", type, Restricted(fields, signs)>>

\* It fails on a schema field that the message lacks, and on a negative uint64.
Hashable(fields, signs) ==
    /\ signs \subseteq DOMAIN fields
    /\ "wei" \in signs => fields["wei"] >= 0

\* SignUserSignedAction adds the chain to the action that is then sent.
OnChain(fields) ==
    [x \in DOMAIN fields \cup {"hyperliquidChain", "signatureChainId"} |->
        IF x \in DOMAIN fields THEN fields[x] ELSE "chain"]

\* An envelope names a vault unless the action is one that the user signs.
userSignedActionTypes ==
    {"usdClassTransfer", "sendAsset", "usdSend", "spotSend", "withdraw3",
     "approveAgent", "approveBuilderFee", "tokenDelegate", "convertToMultiSigUser"}

VaultAddress(type, vault) == IF type \in userSignedActionTypes THEN None ELSE vault

\* Schemas.
UsdSendSignTypes          == {"hyperliquidChain", "destination", "amount", "time"}
SpotTransferSignTypes     == {"hyperliquidChain", "destination", "token", "amount", "time"}
WithdrawSignTypes         == {"hyperliquidChain", "destination", "amount", "time"}
UsdClassTransferSignTypes == {"hyperliquidChain", "amount", "toPerp", "nonce"}
\* Mutant: the schema before sub-accounts.
SendAssetSignTypes_NoSubAccount == {"hyperliquidChain", "destination", "sourceDex",
                              "destinationDex", "token", "amount", "nonce"}

SendAssetSignTypes        == {"hyperliquidChain", "destination", "sourceDex",
                              "destinationDex", "token", "amount", "fromSubAccount", "nonce"}
TokenDelegateSignTypes    == {"hyperliquidChain", "validator", "wei", "isUndelegate", "nonce"}
ConvertToMultiSigUserSignTypes == {"hyperliquidChain", "signers", "nonce"}
ApproveAgentSignTypes     == {"hyperliquidChain", "agentAddress", "agentName", "nonce"}
ApproveBuilderFeeSignTypes == {"hyperliquidChain", "maxFeeRate", "builder", "nonce"}

-------------------------------------------------------------------------------
(***************************************************************************)
(* Transfers, staking and multi-sig.  own is the client's vault.           *)
(***************************************************************************)
SendUSD(to, amount) ==
    User("usdSend", [destination |-> to, amount |-> amount], UsdSendSignTypes, "time", "shown")

SendSpot(to, token, amount) ==
    User("spotSend", [destination |-> to, token |-> token, amount |-> amount],
         SpotTransferSignTypes, "time", "shown")

Withdraw(amount, to) ==
    User("withdraw3", [destination |-> to, amount |-> amount], WithdrawSignTypes,
         "time", "shown")

\* DepositToVault, WithdrawFromVault: hashed without a vault.
VaultTransfer(vault, isDeposit, usd) ==
    L1("vaultTransfer", [vaultAddress |-> vault, isDeposit |-> isDeposit, usd |-> usd],
       None, "shown")

\* PerpToSpot, SpotToPerp: the vault is part of the amount.
UsdClassTransfer(own, amount, toPerp) ==
    User("usdClassTransfer", [amount |-> <<amount, own>>, toPerp |-> toPerp],
         UsdClassTransferSignTypes, "nonce", "shown")

\* MoveToDex, MoveFromDex: to the signer's own address, through the sub-account own.
SendAsset(own, addr, source, destination, token, amount) ==
    User("sendAsset",
         [destination |-> addr, sourceDex |-> source, destinationDex |-> destination,
          token |-> token, amount |-> amount, fromSubAccount |-> own],
         SendAssetSignTypes, "nonce", "shown")

\* Delegate, Undelegate.
TokenDelegate(validator, wei, isUndelegate) ==
    User("tokenDelegate",
         [validator |-> validator, wei |-> wei, isUndelegate |-> isUndelegate],
         TokenDelegateSignTypes, "nonce", "shown")

MultiSigConvert(authorized, threshold) ==
    User("convertToMultiSigUser", [signers |-> <<authorized, threshold>>],
         ConvertToMultiSigUserSignTypes, "nonce", "shown")

MultiSigExecute(own, action, signers, signatures) ==
    L1("multiSig", [action |-> action, signers |-> signers, signatures |-> signatures],
       own, "shown")

-------------------------------------------------------------------------------
(***************************************************************************)
(* Account settings.  asset comes from the asset tables.                   *)
(***************************************************************************)
\* The answer is decoded into a user state, whatever it says.
SetLeverage(own, asset, leverage, isCross) ==
    L1("updateLeverage", [asset |-> asset, isCross |-> isCross, leverage |-> leverage],
       own, "lost")

AdjustMargin(own, asset, ntli) ==
    L1("updateIsolatedMargin", [asset |-> asset, isBuy |-> TRUE, ntli |-> ntli],
       own, "shown")

\* time is left out when there is no deadline.
ScheduleCancelAll(own, deadline) ==
    L1("scheduleCancel", IF deadline = None THEN << >> ELSE [time |-> deadline],
       own, "shown")

SetReferrer(code)    == L1("setReferrer", [code |-> code], None, "shown")
UseBigBlocks(enable) == L1("evmUserModify", [usingBigBlocks |-> enable], None, "shown")

\* A fresh key for agent; an empty name is sent like any other.
ApproveAgent(agent, name) ==
    User("approveAgent", [agentAddress |-> agent, agentName |-> name],
         ApproveAgentSignTypes, "nonce", "raised")

ApproveBuilderFee(builder, maxFeeRate) ==
    User("approveBuilderFee", [maxFeeRate |-> maxFeeRate, builder |-> builder],
         ApproveBuilderFeeSignTypes, "nonce", "shown")

-------------------------------------------------------------------------------
(***************************************************************************)
(* Sub-accounts and outcome shares.                                        *)
(***************************************************************************)
CreateSubAccount(name) == L1("createSubAccount", [name |-> name], None, "shown")

\* DepositUSD, WithdrawUSD: hashed without a vault, unlike their spot twins.
SubAccountTransfer(sub, isDeposit, usd) ==
    L1("subAccountTransfer", [subAccountUser |-> sub, isDeposit |-> isDeposit, usd |-> usd],
       None, "shown")

\* DepositSpot, WithdrawSpot.
SubAccountSpotTransfer(own, sub, isDeposit, token, amount) ==
    L1("subAccountSpotTransfer",
       [subAccountUser |-> sub, isDeposit |-> isDeposit, token |-> token, amount |-> amount],
       own, "shown")

\* Split, Merge, MergeQuestion and Negate share a type and differ in the inner body.
Split(own, outcome, amount) ==
    L1("userOutcome", [splitOutcome |-> [outcome |-> outcome, amount |-> amount]],
       own, "raised")

Merge(own, outcome, amount) ==
    L1("userOutcome", [mergeOutcome |-> [outcome |-> outcome, amount |-> amount]],
       own, "raised")

MergeQuestion(own, question, amount) ==
    L1("userOutcome", [mergeQuestion |-> [question |-> question, amount |-> amount]],
       own, "raised")

Negate(own, question, outcome, amount) ==
    L1("userOutcome",
       [negateOutcome |-> [question |-> question, outcome |-> outcome, amount |-> amount]],
       own, "raised")

-------------------------------------------------------------------------------
(***************************************************************************)
(* Deployment and validators.                                              *)
(***************************************************************************)
SpotDeployRegisterToken(spec, maxGas, fullName) ==
    L1("spotDeploy",
       [registerToken2 |-> [spec |-> spec, maxGas |-> maxGas, fullName |-> fullName]],
       None, "shown")

SpotDeployUserGenesis(own, balances) ==
    L1("spotDeployUserGenesis", [balances |-> balances], own, "shown")
SpotDeployEnableFreezePrivilege(own) ==
    L1("spotDeployEnableFreezePrivilege", << >>, own, "shown")
SpotDeployFreezeUser(own, user) ==
    L1("spotDeployFreezeUser", [userAddress |-> user], own, "shown")
SpotDeployRevokeFreezePrivilege(own) ==
    L1("spotDeployRevokeFreezePrivilege", << >>, own, "shown")
SpotDeployGenesis(own, deployer, dexName) ==
    L1("spotDeployGenesis", [deployer |-> deployer, dexName |-> dexName], own, "shown")
SpotDeployRegisterSpot(own, base, quote) ==
    L1("spotDeployRegisterSpot", [baseToken |-> base, quoteToken |-> quote], own, "shown")
SpotDeployRegisterHyperliquidity(own, name, tokens) ==
    L1("spotDeployRegisterHyperliquidity", [name |-> name, tokens |-> tokens], own, "shown")
SpotDeploySetDeployerTradingFeeShare(own, feeShare) ==
    L1("spotDeploySetDeployerTradingFeeShare", [feeShare |-> feeShare], own, "shown")

PerpDeployRegisterAsset(own, asset, dexInput) ==
    L1("perpDeployRegisterAsset", [asset |-> asset, perpDexInput |-> dexInput], own, "shown")
PerpDeploySetOracle(own, asset, oracle) ==
    L1("perpDeploySetOracle", [asset |-> asset, oracleAddress |-> oracle], own, "shown")

CSignerUnjailSelf(own)    == L1("cSignerUnjailSelf", << >>, own, "shown")
CSignerJailSelf(own)      == L1("cSignerJailSelf", << >>, own, "shown")
CSignerInner(own, inner)  == L1("cSignerInner", [innerAction |-> inner], own, "shown")
CValidatorRegister(own, profile) ==
    L1("cValidatorRegister", [validatorProfile |-> profile], own, "shown")
CValidatorChangeProfile(own, profile) ==
    L1("cValidatorChangeProfile", [newProfile |-> profile], own, "shown")
CValidatorUnregister(own) == L1("cValidatorUnregister", << >>, own, "shown")
===============================================================================
