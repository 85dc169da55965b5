------------------------------- MODULE Stdio -------------------------------
(***************************************************************************)
(* The device input and output of lib/libxc.  A device is the sequence of  *)
(* what getc(dev) returns, characters and then SYSERR or EOF for ever; an  *)
(* output device accepts a number of characters and then fails.            *)
(***************************************************************************)
EXTENDS Doscan

SYSERR == "SYSERR"

(* what the (pos)th getc(dev) returns: modelled from its use, since the    *)
(* device drivers are not part of the tree                                 *)
getc(dev, pos) == IF pos <= Len(dev) THEN dev[pos] ELSE SYSERR

fgetc(dev, pos) == LET c == getc(dev, pos)
                   IN  IF c \in {SYSERR, EOFCH} THEN EOFCH ELSE c

(* The buffer and the position of the device after a call with length n:   *)
(* the loop reads until n - 1 characters are stored, after a newline, or   *)
(* at EOF (which is read again by the next call).                          *)
fgets(n, dev, pos) ==
    LET most == IF n > 1 THEN n - 1 ELSE 0
        len == Min({k \in 0..most : \/ k = most
                                    \/ k > 0 /\ fgetc(dev, pos + k - 1) = "\n"
                                    \/ fgetc(dev, pos + k) = EOFCH})
    IN  [s |-> IF len = 0 THEN NULLPTR ELSE SubSeq(dev, pos, pos + len - 1),
         pos |-> pos + len]

(* putc(dev, c) when done characters have been accepted and room may be *)
fputc(c, room, done) == IF done < room THEN c ELSE EOFCH

fputs(s, room) ==
    LET done == Min({k \in 0..Len(s) : k = Len(s) \/ fputc(s[k + 1], room, k) = EOFCH})
    IN  [ret |-> IF done < Len(s) THEN EOF ELSE 0, written |-> SubSeq(s, 1, done)]

(* printf and fprintf pass fputc to _doprnt, sprintf passes sprntf, which  *)
(* never fails and advances the pointer; sprintf returns that advance and  *)
(* not what _doprnt returned                                               *)
fprintf(room, fmt, args) == doprnt(fmt, args, room)
sprintf(fmt, args) == LET s == Output(fmt, 1, args)
                      IN  [ret |-> Len(s), written |-> s]
=============================================================================
