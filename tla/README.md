# AES-128 cores: a TLA+ development

This directory models the AES-128 hardware of the repository: the encryption core
`aes_cipher_top`, the decryption core `aes_inv_cipher_top`, the round-key generator they share,
the combinational byte logic, and `aes_top`, which puts both cores behind one port. It also models
the bench that tests the encryption core, the C code the bench takes for right, and the AES script in
Python. TLC checks the models on small instances; TLAPS proves their main properties for all keys,
texts and power-up values, down to the bits of the byte logic: the encryption core, the C code and
the script all compute the cipher of FIPS-197, whatever they are given.

## Inventory

The repository holds about 4200 files. Most are third-party AES libraries kept for comparison
(`c/`, `software/`, `cryptopp561/`) and documents, netlists and logs (`doc/`, `syn/`, `sim/`).
Its own logic is the following.

| Part | State | Operations | Hard about it | Here |
|---|---|---|---|---|
| `rtl/aes_cipher_top.sv` | `dcnt`, `done`, `ld_r`, `text_in_r`, state array, `text_out` | a clock edge, with `ld` and `rst` | `ld` at any cycle of a block; `rst` clears two registers of the nine; control and datapath are tied by cycle counts only | `AesCipher` |
| `rtl/aes_key_expand_128.sv`, `aes_rcon.sv` | `w[0..3]`, `out`, `rcnt` | a clock edge, with `kld` | no reset, never stops | `KeyExpand` |
| `rtl/aes_inv_cipher_top.sv` | the same, and `go`, `kb[0..10]`, `kcnt`, `kb_ld`, `kdone`, `w` | a clock edge, with `ld`, `kld` and `rst` | two ports that do not wait for each other and share one key buffer; `kdone` is not an output; `done` and `kdone` outlive a reset by a cycle; priorities of `done` and `ld` differ between `dcnt` and `go` | `AesInvCipher` |
| `aes_sbox`, `aes_inv_sbox`, `aes_xor`, `aes_addroundkey`, column functions | none | – | 512 constants, wiring by name | `AesBytes` |
| `aes_core_top/rtl/aes_top.sv` | a latch on the outputs | mode 0 sends `ld` to the encryption core, mode 1 sends `ld` and `kld` to the decryption core | no default in the output multiplexer; mode may change while a core works; both cores may answer | `AesTop` |
| `rtl/aes_top.sv` | none | wiring | – | not modelled |
| `aes_decrypt_rt/` | – | a copy of the decryption core, an unfinished top | – | the copy |
| `bench/` | status counter, copies of text, key, reset (`test.c`); the checker (`aes_checker.sv`) | per clock: drive, step the golden model, compare | the golden model counts cycles on its own, hears of a reset a call late, and must stay in step through random resets | `Bench` |
| `bench/aes.c`, `sbox.h` | registers of the key, state, `rcon` | block encryption in C for three key lengths | a table read by bytes and by words; loops entered in the middle; `rcon` goes through `char` | `GoldenAes`, `AesTable` |
| `testcase_generator/` | – | prints vectors of that C code | – | the C code |
| `software/python/aes.py` | key schedule and state; counter block | block encryption, counter mode | rows and columns; last block; two formulas for the counter's high half | `PyAes`, `PyCtr` |

Each of the cores includes a key generator `u0`: `aes_cipher_top` loads it with `ld` and consumes
round keys as they come; `aes_inv_cipher_top` loads it with `kld`, stores what comes in `kb` and
reads it backwards. The bench is the only user of the encryption core, through an interface.

What makes each part correct:

* encryption core: `done` means that `text_out` is the encryption of the last block loaded, 12
  cycles after it; a block cut short leaves no trace; a core left alone falls idle;
* decryption core: every round key in its place whatever happened on the key port; `done` means the
  decryption of the last text if the host waited for the buffer and for the core; a decryption
  always ends and leaves the index at 0;
* byte logic: what FIPS-197 says;
* `aes_top`: every answer to a host that keeps to the decryption core's rules is shown in the cycle it
  is there for, and is the answer to what was asked;
* bench: a right core is never reported as wrong, and no answer goes uncompared;
* C code and script: the state after every round is that of FIPS-197; what is encrypted in counter
  mode is decrypted again, and no counter block comes twice in a message.

## Modules

| Module | Models | Depends on |
|---|---|---|
| `Aes` | AES-128 of FIPS-197 over an abstract set `Block` with abstract operations: the reference | |
| `AesAlgebra` | the two assumptions on the operations: they stay in `Block`, and decryption's undo encryption's | `Aes` |
| `KeyExpand` | `aes_key_expand_128` and `aes_rcon`, instantiated as `u0` by both cores | |
| `AesCipher` | `aes_cipher_top` | `Aes`, `KeyExpand` |
| `AesCipherJobs` | `AesCipher` with history variables, its specification and its properties | `AesCipher`, `BlockEngine` |
| `AesInvCipher` | `aes_inv_cipher_top` | `Aes`, `KeyExpand` |
| `AesInvCipherJobs` | the same for `AesInvCipher`, under any host | `AesInvCipher` |
| `PoliteHost` | the decryption core with a host that waits | `AesInvCipherJobs`, `BlockEngine` |
| `BlockEngine` | abstract: what both cores promise, and `aes_top` too | |
| `AesTop` | `aes_core_top/rtl/aes_top.sv`: both cores and the multiplexer | `AesInvCipherJobs`, `AesCipherJobs` |
| `AesTopHost` | the same with a host that asks one question at a time | `AesTop`, `PoliteHost`, `BlockEngine` |
| `Bench` | `do_cycle`, the golden model, the checker and the clocking block, with the encryption core | `AesCipherJobs` |
| `GoldenAes`, `AesTable` | `bench/aes.c` and the table of `sbox.h` | `AesBytes` |
| `PyAes` | `software/python/aes.py`: the block cipher | `AesBytes` |
| `Software` | both on the same call, and what they should be | `GoldenAes`, `PyAes`, `Fips197` |
| `PyCtr`, `PyCtrCounters` | the same: counter mode over any block cipher, and with the counters it has used | |
| `AesBytes` | the combinational logic, byte by byte | |
| `AesField`, `FipsVectors`, `Fips197`, `FipsLongKeys` | GF(2^8), the transformations of FIPS-197, the cipher for all key lengths and the examples: references | |
| `AesTheorems`, `AesCipherProofs`, `AesInvCipherProofs`, `AesTopProofs`, `BenchProofs`, `AesBytesProofs`, `SoftwareProofs`, `PyCtrProofs` | theorems | |
| `MCBlocks` | blocks of 3 bits with invertible operations, for TLC | |
| `MC*` | instances for TLC | |

The cores do not say what a block is: `Block`, `Xor`, `SubShift`, `MixColumns`, `ExpandKey` and the
inverse operations are constants, so that the control, which is where the cores could go wrong, is
checked with 3-bit blocks and proved for all. `AesBytes` has the operations of the RTL, and the
run `fips` puts them in for those constants.

### How they correspond to the code

A state is the registers between two rising edges of `clk`; a step is an edge. Names are those of
the RTL, except that the four words `w0..w3` are one block `w`, the bytes `sa00..sa33` one block
`sa`, and the words `wk0..wk3` of the decryption core `wk`. An action is one kind of edge, by its
inputs:

| `rst` | `ld` | `AesCipher` | | `rst` | `ld` | `kld` | `AesInvCipher` |
|---|---|---|---|---|---|---|---|
| 0 | 0 | `Reset` | | 0 | any | any | `Reset` |
| 0 | 1 | `ResetLoad` | | 1 | 0 | 0 | `Run` |
| 1 | 1 | `Load` | | 1 | 1 | 0 | `LoadText` |
| 1 | 0 | `Round` | | 1 | 0 | 1 | `LoadKey` |
| | | | | 1 | 1 | 1 | `LoadBoth` |

Every action is a conjunction of parts, one per clocked process or group of them: of the control
(`LoadControl`, `StepText`, `StepKey`, ...), which looks at `rst`, and of the datapath
(`LatchInputs`, `RunRound`, `Datapath`, `WriteBuffer`, `LatchText`, ...), which does not. All
registers take their new value from the old state, as nonblocking assignments do.

**`AesTop`** takes the two cores as they are: an edge is an edge of each, with the `ld` and `kld` that
`mode` lets through. Names of the decryption core are plain, those of the encryption core end in
`_e`. The output multiplexer is an `always_comb` with procedural `assign`s and no `else`: an `assign`
stays in force until another replaces it, so the state it needs is which core is connected
(`shown`), and the outputs follow that core's registers. Before any answer nothing is connected
(`Undriven`).

**`Bench`** has one step per call of `do_cycle` with the edge that ends it. The outputs the checker
sees were sampled before the last edge (`cb_done`, `cb_text_out`); the inputs the call drives reach
the core at the next one. `send_ld_rst`, `rebuild_*`, `rearrange_*`, `generate_ciphertext`,
`get_ciphertext`, `get_done` run in the order of the call, each with the values the earlier ones left.
`UnpassedRst` is what `generate_ciphertext` may find in the parameter that `test.sv` does not pass.
`ResetsAt` says in which calls of a block the reset density allows a reset.

**`GoldenAes`** and **`PyAes`** have one step per round; a word of the C code is its four bytes in
memory on a little-endian machine, which the bench needs. **`PyCtr`** has one step per block; the
block cipher, the exclusive or and the making of a key schedule are parameters, as are `blockSize`
and `Half`, which are 16 and 2^32 in the script. The eight bytes of the nonce are one character.

At power-up registers hold anything: `dcnt` and the other counters any value of their four bits,
blocks any value of `Unknown`. `Unknown` is also what a read of `kb` outside its eleven entries
gives (`dcnt` reaches 12). A write outside, at `kcnt` 11 to 15, writes nothing.

History variables (`known`, `job`, and for decryption `fresh`, `bkey`, `kage`, `age`, `clean`) watch
the inputs and are never read by the core's actions. `kage` and `age` are clocks a host could keep.
They are what the properties speak of; they are no part of the code and not in the map.

Definitions marked *Mutant* are plausible errors in the definition after them; with one in its
place, the property named in `PROJECT.json` is violated. No specification uses them.

## Runs

| Run | Question | Properties | Size |
|---|---|---|---|
| `cipher` | the encryption core, any inputs at any edge, from every power-up count | `TypeOK`, `PipelineInv`, `ResultCorrect`, `ImplementsEngine`, `Quiesces` | 259 000 states |
| `inv_cipher` | the decryption core, any inputs | `TypeOK`, `KeyBufferInv`, `ControlInv`, `CleanInv`, `CleanResult`, `KeyDoneWhenFull`, `DoneIsPulse` | 2.5 million |
| `inv_rest` | it comes to rest | `Quiesces` | 584 000 |
| `polite_host` | it is a block engine for a host that waits | `AlwaysReady`, `ImplementsEngine` | 5.3 million |
| `bytes` | the byte logic is that of FIPS-197, and the C table that of the byte logic | `SboxesAreTheirFormula`, `ColumnsAreProducts`, `ShiftsUndone`, `KeyWordsChain`, `TableOfTheCore` | 2048 |
| `fips` | `aes_top`, the cores and the byte logic together give the examples of FIPS-197 | `KnownAnswerCipher`, `KnownAnswerInvCipher` | 20 100 |
| `aes_top` | every encryption, and every decryption of a host that kept to the rules, reaches the outputs, any inputs | `AnswersShown` | 2.0 million |
| `aes_top_host` | `aes_top` is a block engine | `TopImplementsEngine` | 1.4 million |
| `bench` | the bench passes a right core | `LockStep`, `ChecksPass`, `AnswersCompared` | 89 000 |
| `bench_late_reset` | where it does not (a violation) | `ChecksPass` | 44 000 to the violation |
| `software` | the C code and the script are FIPS-197 | `StatesOfTheStandard`, `RoundKeysOfTheStandard`, `RconIsReduced`, `KnownAnswersGolden`, `PyStatesOfTheStandard`, `KnownAnswersPython` | 600 |
| `py_ctr` | counter mode of the script | `RoundTrip`, `CountersDiffer` | 12 500 |

What they show, and at which bounds:

* **`cipher`** has no bound on the host: resets, loads and loads under reset come at any edge and
  any number of times. There are two keys, two texts, two unknown blocks and two unknown constants:
  a key and a text to replace and ones to replace them with. `MCBlocks` has a nonlinear S-box, a
  rotation for MixColumns and a key step that uses every round constant, so that a wrong round,
  order or constant changes the result; under it the free-running key generator returns to where it
  was after 16 idle cycles, which keeps the state space finite.
* **`inv_cipher`** and **`polite_host`** bound the host (`MaxOps` actions after the first reset,
  each within `MaxGap` cycles of the last: 15 and 13). An action changes what is in flight for at most 13
  cycles, so three actions at every spacing reach every overlap of a key, a key or text that
  replaces it, and a reset; the polite host needs key, text, next key, next text: four. After
  `MaxGap` cycles the host stays quiet for ever. One text is enough there, since only the order of
  round keys is at stake, and two keys, which the buffer may mix.
* **`inv_rest`** is apart because it needs a fair specification and several power-up counters (0, 6,
  11, 15) rather than many host actions.
* **`bytes`** takes every byte at every place of a column, among zeros and among other bytes. But for
  the S-boxes the logic is linear over GF(2), so columns with one byte that is not zero determine it.
  `ShiftsUndone` and `KeyWordsChain` use blocks whose sixteen bytes differ. `SboxesAreTheirFormula`
  depends on one byte, so the run is exhaustive for it; the other four are proved.
* **`fips`**: `aes_top` under the polite host of `AesTopHost`, with the byte logic of the RTL. After a
  reset and a first key, `MaxOps` = 3 actions: a key, an encryption or a decryption of one of the two
  examples, or a reset. `ActGaps` = {8, 11} are the earliest cycles for the next key and for the
  next question (a question at 8 cuts an encryption short); `MaxGap` = 13 lets the last answer come
  out. The last disjunct of the next-state relation marks the end of the observation.

* **`aes_top`**, **`aes_top_host`**: after a reset and a first key, `MaxOps` actions of the host (3 and
  4), each at any of 13 distances from the last. Three is a start in one mode, a change of mode with a
  start in the other, and a reset, a key or another start; four let the polite host ask three
  questions with a new key between them. One key and one text suffice: which core speaks is what is
  at stake, and an encryption is never a decryption of the same block under `MCBlocks`. The theorems
  cover any number of actions, keys and texts.
* **`bench`** has no bound on the length: transactions go on for ever. `WARMUP` is 10 as in
  `bench/configure.txt`. Resets come in the warm-up, between blocks and in the first twelve calls of
  a block. The configurations kept with the bench set `RESET_DENSITY` to 100, which is no resets.
* **`software`**: the C code and the script in lock step on the same key and text, round by round. Keys
  of the examples in appendix A, key and text of appendix C, and keys and texts of equal bytes:
  twelve pairs a key length, every round of every function; the theorems cover all other keys and
  texts. Both run to their end, which is no
  deadlock, hence `CHECK_DEADLOCK FALSE`; so does `py_ctr`.
* **`py_ctr`**: `Half` is 3 and a block two characters, so the low half of the counter comes round
  after three blocks and the whole counter after nine: all messages over two characters up to three
  blocks, and one of each length up to nine, with two nonces, two passwords, two key lengths and a
  length that is refused.

### What the violation says, and what the bench takes for granted

* A block takes the bench 14 calls. A reset in call 13 leaves the core's `done` already sampled, but
  in call 14 the golden model gives up the block: the checker reports `error in done bit`. A reset in
  call 14 makes `get_ciphertext` give zeros for an answer that the core gave before the reset: `error in
  text_o`. So the bench can be used with `RESET_DENSITY` below 100 only until a reset falls there; the
  run `bench` shows that all other places are sound. The guard `status != 14` in `send_ld_rst` looks
  like an attempt at this, but at that point `status` is never 14.
* `test.sv` imports `generate_ciphertext` without the parameter the C function has and tests. With
  0 there the golden model does not encrypt: with `FALSE` in `UnpassedRst`, `ChecksPass` fails without
  any reset. What a call leaves there depends on the simulator and the machine; `bench` and the
  theorems take it to be not 0, which is what the bench needs in order to work at all.
* The round constant of the C code is reduced by the sign of a `char` (the comment beside it speaks
  of its bit 7). `software` has `SignedChar` as the machines the bench ran on have it; with `FALSE`
  the ninth constant is 1 instead of 27 and `RconIsReduced` fails. The functions for 192 and 256 bits
  are done before that constant (`LongKeysWhateverTheChar`), so this is about 128 bits only.

Not a finding, since nothing in the repository says otherwise: `decrypt` of the script computes the
high half of the counter as `int(float(b+1)/2^32 - 1)` and `encrypt` as `b/2^32`, so from block 2^32
on they differ, and `RoundTrip` is stated up to there. `bench/configure.txt` has a key `RAMDOM_SEED`,
at which `aes_env.sv` exits with `Never heard of a`; the file in `sim/` is right.

`FairSpec` and `MCSpec` assume weak fairness of the next-state relation as a whole: the clock keeps
running. Nothing is assumed about which edge comes, that is about the host. `Quiesces` takes the
host's silence as its hypothesis.

### What the decryption core asks of its host

`MayStart` and `MayLoadKey` of `AesInvCipherJobs` are the least that was found to suffice: start when
the eleven round keys have been stored (11 cycles after the key), the last decryption is over and
`done` is low; present no other key in the eight cycles after a text. `MayLoadKey` is tight: with
seven cycles the last read, of `kb[10]`, finds the new key, `CleanInv` fails and so does its proof. The core
does not enforce any of it and has no output that would help; without it the answer is a mixture,
which is why `CleanResult` is about clean decryptions only. `KeyBufferInv`, `KeyDoneWhenFull`,
`ControlInv` and `DoneIsPulse` hold for any host. `kdone` comes with the last round key and at no other
time, with one exception on its absence: a key presented under a reset at that very edge keeps it
low, though the reset keeps the key out of the buffer, which is complete. `done` is not cleared by `rst`, so a reset in the cycle before
`done` leaves it high once: `PoliteHost` does not look at `done` in the cycle after a reset.

## Proofs

Everything is proved for arbitrary `Block`, `Keys`, `Texts`, unknown values and operations, from the
assumptions

* `HostInputs`, `UnknownValues`: the inputs and the unknown values are of their types;
* `UndrivenIsNoValue`: what an undriven output shows is no block and no level;
* `BenchConstants` and, for the theorems about the bench, `QuietEnd`: no reset in call 13 or 14, a
  parameter of `generate_ciphertext` that is not 0, and a warm-up of at least two calls. The
  first is needed, as `bench_late_reset` shows, and so is the second (above);
* `Closure`: operations on blocks give blocks; `Inverses` (for `DecryptInverts` only): `Xor` with a
  key twice, `InvShiftSub` after `SubShift`, `InvMixColumns` after `MixColumns` give the block back.
  TLC evaluates these for `MCBlocks`; that the operations of the RTL satisfy them is a theorem
  (`ClosureOfTheBytes`, `InversesOfTheBytes`);
* `GoldenConstants`, for the C code: it is called with arrays of words that are four bytes each, as
  many as the function reads. The theorems about it for keys of 128 bits have `SignedChar` as their
  hypothesis: without it they are false (above);
* `FillBytes`, for the byte logic: the bytes that fill a column up are bytes;
* `CtrConstants` and `CtrStrings`, for counter mode: `blockSize` and `Half` are positive, strings are
  made of characters, an exclusive or with the same character twice changes nothing, and the block
  cipher gives `blockSize` characters. Nothing else is assumed of the cipher.

| Theorem | Says |
|---|---|
| `AesTheorems!DecryptInverts` | `Decrypt(k, Encrypt(k, t)) = t` |
| `AesCipherProofs!TypeCorrect`, `PipelineCorrect`, `CipherCorrect` | the invariants of run `cipher` |
| `AesCipherProofs!CipherImplementsEngine` | the encryption core implements `BlockEngine` with latency 12 |
| `AesInvCipherProofs!TypeCorrect`, `KeyBufferCorrect`, `KeyDoneCorrect`, `ControlCorrect`, `DonePulse`, `CleanCorrect`, `InvCipherCorrect` | the properties of run `inv_cipher` |
| `AesInvCipherProofs!PoliteIsReady`, `InvCipherImplementsEngine` | the properties of run `polite_host` |
| `AesTopProofs!TopShowsAnswers`, `TopRefinesEngine` | the properties of runs `aes_top` and `aes_top_host` |
| `BenchProofs!StaysInStep`, `FindsNoError`, `ComparesEveryAnswer` | the properties of run `bench` |
| `AesBytesProofs!ColumnsAreProductsCorrect`, `ShiftsUndoneCorrect`, `KeyWordsChainCorrect`, `TableOfTheCoreCorrect` | four of the five properties of run `bytes` |
| `AesBytesProofs!OperationsOfTheStandard` | the exclusive or, column functions and key expansion of the RTL are those of FIPS-197, for every block, key and constant |
| `AesBytesProofs!ClosureOfTheBytes`, `InversesOfTheBytes` | the operations of the RTL satisfy the two assumptions of `AesAlgebra` |
| `SoftwareProofs!StatesOfTheStandardCorrect`, `RoundKeysOfTheStandardCorrect`, `RconIsReducedCorrect` | the properties of run `software` about the C code, where `char` is signed |
| `SoftwareProofs!LongKeysWhateverTheChar` | the same for keys of 192 and 256 bits, where it is not signed too |
| `SoftwareProofs!PyStatesOfTheStandardCorrect` | the property of run `software` about the script |
| `SoftwareProofs!CoreIsTheStandard` | with the byte logic of the RTL, the `Encrypt` that the encryption core computes is the cipher of FIPS-197, and the `Decrypt` that the decryption core computes undoes it |
| `PyCtrProofs!RoundTripCorrect`, `CountersDifferCorrect` | the properties of run `py_ctr` |

The arguments:

* `ResultCorrect` is not inductive: it says nothing of a block in progress. `PipelineInv` adds, for
  every value of `dcnt` from 11 to 1, which round key, constant and count the generator holds and
  which intermediate state of the reference the state array holds. Each step rests on the recursion
  equations of `AesTheorems` (`KeyScheduleEquation`, `CipherEquation`), which are proved from the
  definitions of the recursive functions, and on `FrconIsRcon`.
* `KeyBufferInv` is the same for the filling of the buffer: the entries below `kcnt` are stale, those
  above are in place, and after the last one nothing writes.
* `KeyDoneWhenFull` is an action property and says both when `kdone` comes and when it does not. By
  `KeyBufferInv` `kcnt` is 0 in cycle 11 of a filling and at no other time, in or out of reset.
* `ControlInv` lists the four ways a decryption can stand by its host's clock. It is inductive by
  itself, and gives that `dcnt` runs over all indices in order or not at all.
* `CleanInv` joins them: the round key in `w` is the one of the state in `sa`, and the buffer still
  holds the key of the decryption up to age 9, its last entry up to age 10: the new key's first
  write, a cycle after it is loaded, goes to `kb[10]` and is never ahead of the read.
* The refinements map `age`, `job`, `known` and `done`, and split by cases into the actions of
  `BlockEngine`; the invariants give the value of `text_out` where `Answer` promises it.
* `AnswersShown` needs that the cores never answer together. They share the clock and both take 12
  cycles from their `ld`, so the invariant `TopInv` is that an encryption is never as old as a clean
  decryption: one edge lets `ld` into one core. Each core keeps the invariant proved for it alone,
  since an edge of `aes_top` is an edge of each.
* `TopImplementsEngine` adds that only one core works at a time and which one `last` asked, from which
  `shown` is that core when its `done` rises.
* The bench drives the core as one host among others, so `PipelineInv` holds of it. `BenchInv` adds to
  `LockStep` what was sampled, that a reset the golden model has still to hear of came before call
  13, and that the status in the transaction is 0 only where the golden model has no block, or a
  reset has ended it.

* `AesBytesProofs` takes bytes apart into sets of bits, `Bits(x)`. There `(+)` is the symmetric
  difference (`XorIsDifference`) and two bytes with the same bits are the same (`SameBits`), so that
  an identity between sums of bytes, such as the one of sixty terms behind `inv_mix_col`, is left to
  propositional logic one bit at a time. `xtime` is linear and its bits are known (`XtimeBits`). On the
  side of the mathematics, `SumIsTotal` says what the fold under `FromBits` and `FieldTimes` gives,
  `ModuloSteps` unrolls the division by the polynomial and `FieldTimesBits` has the bits of a
  product with a number below 16; from these `Products`, that the shared shifts of the RTL are
  the products with 2, 3, 9, 11, 13 and 14. The S-box is used only as a table of 256 bytes that
  another one undoes (`SboxUndone`). The state of `MCAesBytes` is one byte that varies and others that
  do not, and each theorem about it follows from a lemma about all columns or blocks.
* With `ClosureOfTheBytes` and `InversesOfTheBytes` what is proved of the cores for any operations
  holds of the cores with the logic of the RTL: that is what `INSTANCE` means.
* `SoftwareProofs` has to take apart definitions by recursion of three kinds: those of the standard,
  which build a list of words by appending; the C code, which writes over 4, 6 or 8 registers; and
  the script, which builds a list of its own. The library's induction theorems cannot be used, so
  `UpTo` states induction for a set of numbers rather than for a predicate: the set of those at
  which something fails has no least element (`LeastNumber`). From it the equations of `KeyWords`
  and `CipherStates`, each word and each state from the ones before.
* `GoldenInv` is inductive where `RoundKeysOfTheStandard` is not. At any time the registers are a
  window on the words of the standard: register `j` holds the last word whose number is `j` modulo
  the length of the key, of those made so far (`Holds`, `KeyState`). An update moves one of them on
  by that length, which is the standard's equation for it, also where the loop is entered in the
  middle and where a round uses the tail of one turn and the head of the next. `CharWillDo` says
  when the sign of `char` does not matter, and is needed only where the constant is still doubled.
* That a round is a round of the standard comes from `TableOfTheCore`, which is proved for every
  byte: entries of the table are columns of products, and four of them, rotated and added, are a
  column of `MixColumns` after `SubBytes` and `ShiftRows`.
* `PyInv`: the schedule of the script is the list of the standard, the state is that of the standard
  with rows for columns.
* `CoreIsTheStandard` reads a block of the RTL as four columns (`InColumns`, `InBlock`), shows each of
  its operations to be one of the standard on columns (`BlockOperations`, `ExpandKeyIsSchedule`), and
  then, round by round, `KeySchedule` and `CipherRounds` of `Aes` to be `KeyWords` and `CipherStates`
  (`CoreRounds`). With `CipherCorrect` it says that the core answers every text of 128 bits with its
  ciphertext under FIPS-197. Its second half is `DecryptInverts` for the operations of the RTL.
  `Fips197` has the S-box table of `AesBytes`; that this is the S-box of the standard is
  `SboxesAreTheirFormula`, which TLC checks for all its entries.
* `RoundTrip` says nothing of the ciphertext. `CtrInv` adds to it what `encrypt` has put together after
  `b` blocks (`EncryptInv`): the nonce, and each character masked by its place in the pad of its block.
  `CiphertextInv` says that of the whole message when it is done, and `DecryptInv` that `decrypt` has
  taken the first `b` pads off again. The two find the end of the last block differently, one
  by a remainder and one by what is left: `BlockLengthIsRest` makes them one, `AsManyBlocks` says
  they count as many blocks, and `HighIsZero` that the two formulas for the high half agree as far as
  the property goes.
* `CountersDiffer` needs that `used` holds the counters of the blocks before `b` and no other
  (`UsedInv`), and that two numbers below `Half * Half` differ in a digit (`CountersAreDistinct`).

Only checked by TLC:

* `Quiesces` of both cores, which is liveness;
* `SboxesAreTheirFormula`: that two tables of 256 constants have the values of a formula with an
  inverse in a field is a matter of looking at each of them, which TLC does for all;
* `KnownAnswerCipher`, `KnownAnswerInvCipher`, `KnownAnswersGolden` and `KnownAnswersPython`: examples
  of FIPS-197, which are computations. They tie `Fips197` and `Aes`, which the theorems take for the
  standard, to the values the standard prints.

## Not modelled

* Timing within a cycle, glitches, metastability, and the `#1` delays.
* Simulation's `X`: an unknown register is taken to hold some value of its type, as hardware does.
* The debug ports of `rtl/aes_cipher_top.sv` (`w*`, `sa*`, S-box signals): copies of registers.
* `rtl/aes_top.sv`: it wires the encryption core to the interface and has no state.
* The top of `aes_decrypt_rt`, which is unfinished: it has the name of the core it instantiates, and
  both of its instances drive the same outputs.
* Earlier drafts of the bench (`test_x.*`, `test_bench_top*`, `*.bak`) and the unfinished bench of
  `aes_core_top`.
* In the bench: log files, coverage groups, and `$exit` other than that no call follows an error. In
  the script: base64, the clock, and the bytes of a password.
* `urs(b/0x100000000, ...)` in `encrypt` is not cut to a byte, which tells from 2^40 blocks on.
* The vendored libraries in `c/`, `software/` and `cryptopp561/` (beecrypt, Crypto++, keyczar, OpenSSL,
  CyaSSL, libaes and others). They make up nearly all C and C++ lines of the repository, are third-party
  code kept for comparison, and nothing of the repository's own calls them. The C and C++ code of the
  repository itself, `bench/test.c` and `bench/aes.c`, is modelled.

Liveness is stated for the cores only. `aes_top` adds no waiting of its own, and the bench runs for a
number of calls that its configuration sets.

## Open

All parts of the inventory that have state are modelled, and every safety property of a run is
proved but for the tables and the examples above. What could still be added: the bench of
`aes_core_top`, if it is ever finished; and the bench with a faulty core, to say which faults random
transactions would show.
