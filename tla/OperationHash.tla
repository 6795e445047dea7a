----------------------------- MODULE OperationHash -----------------------------
(***************************************************************************)
(* What a sponsorship binds: the hash the relayer signs (userop.ts) and    *)
(* the hash the paymaster computes of the operation it is given (getHash). *)
(*                                                                         *)
(* keccak256 is taken to be injective, so a hash is what it is taken of.   *)
(* An initCode is a sequence of at most two items: the factory, or one of  *)
(* the two spellings of the EIP-7702 marker, and the data behind it.  The  *)
(* account's nonce, the chain and the paymaster's address, which are       *)
(* hashed as they are, are left out.                                       *)
(***************************************************************************)
EXTENDS Integers, Sequences

CONSTANTS
    Word,                \* 2^128
    Bare, Padded,        \* `0x7702`, and the same with 18 zero bytes
    None                 \* a field that is left out

ASSUME HashAssumption == Word \in Nat \ {0} /\ Bare # Padded /\ None \notin {Bare, Padded}

\* Both halves of a word; a number that needs more than its half is refused.
packable(high, low) == high \in 0 .. Word - 1 /\ low \in 0 .. Word - 1

packHighLow(high, low) == high * Word + low

-----------------------------------------------------------------------------
(* The relayer: an operation over JSON-RPC has fields of its own, and names *)
(* a factory or, in the older form, an initCode.                            *)

packInitCode(op) ==
    CASE op.initCode # None -> op.initCode
      [] op.initCode = None /\ op.factory = None -> <<>>
      [] OTHER -> <<IF op.factory = Bare THEN Padded ELSE op.factory>> \o op.factoryData

\* The padded spelling only.
isPaddedInitCode(initCode) == initCode # <<>> /\ Head(initCode) = Padded

isEip7702InitCode(initCode) == initCode = <<Bare>> \/ isPaddedInitCode(initCode)

initCodeHash(op, senderImplementation) ==
    LET initCode == packInitCode(op)
    IN IF isEip7702InitCode(initCode) THEN <<senderImplementation>> \o Tail(initCode) ELSE initCode

\* Every quantity of the operation fits into its half of a word.
Hashable(op) ==
    /\ packable(op.gas.verificationGasLimit, op.gas.callGasLimit)
    /\ packable(op.gas.paymasterVerificationGasLimit, op.gas.paymasterPostOpGasLimit)
    /\ packable(op.maxPriorityFeePerGas, op.maxFeePerGas)

paymasterHash(op, terms) ==
    LET fieldsHash ==
            << op.sender, initCodeHash(op, terms.senderImplementation), op.callData,
               packHighLow(op.gas.verificationGasLimit, op.gas.callGasLimit),
               packHighLow(op.gas.paymasterVerificationGasLimit, op.gas.paymasterPostOpGasLimit),
               op.gas.preVerificationGas,
               packHighLow(op.maxPriorityFeePerGas, op.maxFeePerGas) >>
    IN <<fieldsHash, terms>>

-----------------------------------------------------------------------------
(* The chain: a PackedUserOperation, as a bundler encodes the fields.       *)

\* A bundler may spell a marker that nothing follows either way.
InitCodes(op) ==
    LET initCode == packInitCode(op)
    IN IF initCode \in {<<Bare>>, <<Padded>>} THEN {<<Bare>>, <<Padded>>} ELSE {initCode}

PackedUserOperation(op, initCode) ==
    [sender |-> op.sender, initCode |-> initCode, callData |-> op.callData,
     accountGasLimits |-> op.gas.verificationGasLimit * Word + op.gas.callGasLimit,
     paymasterGasLimits |->
        op.gas.paymasterVerificationGasLimit * Word + op.gas.paymasterPostOpGasLimit,
     preVerificationGas |-> op.gas.preVerificationGas,
     gasFees |-> op.maxPriorityFeePerGas * Word + op.maxFeePerGas]

\* The EntryPoint's own treatment of the marker; delegate is the sender's at validation.
InitCodeHashOverride(initCode, delegate) ==
    IF initCode # <<>> /\ (Head(initCode) = Padded \/ initCode = <<Bare>>)
    THEN <<delegate>> \o Tail(initCode)
    ELSE initCode

userOpFieldsHash(userOp, delegate) ==
    << userOp.sender, InitCodeHashOverride(userOp.initCode, delegate), userOp.callData,
       userOp.accountGasLimits, userOp.paymasterGasLimits, userOp.preVerificationGas,
       userOp.gasFees >>

getHash(userOp, terms, delegate) == <<userOpFieldsHash(userOp, delegate), terms>>

\* The limits the EntryPoint reads from the words it is given.
unpackUints(userOp) ==
    << userOp.accountGasLimits \div Word, userOp.accountGasLimits % Word,
       userOp.paymasterGasLimits \div Word, userOp.paymasterGasLimits % Word,
       userOp.gasFees \div Word, userOp.gasFees % Word >>

\* A paymaster that does not look at the account's code.
AnyDelegate(delegate, implementation) == TRUE

delegatedTo(delegate, implementation) == delegate = implementation

\* The paymaster takes the operation on: its sender runs the code the terms name, and
\* the signature is over the hash of what was delivered.
validatePaymasterUserOp(userOp, terms, hash, delegate) ==
    /\ delegatedTo(delegate, terms.senderImplementation)
    /\ getHash(userOp, terms, delegate) = hash

=============================================================================
