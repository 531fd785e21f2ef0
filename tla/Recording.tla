----------------------------- MODULE Recording -----------------------------
(***************************************************************************)
(* An application that records audio and plays it back: samples come from  *)
(* the network or a device in pieces of any size, wait in an               *)
(* AudioFifoBuffer in another type, are written to a WAV file by           *)
(* WavAudioFormat::Writer in a third one, and are read back by its Reader. *)
(* The power may fail in between; and it also plays files of others.       *)
(***************************************************************************)
EXTENDS Numbers, SequencesExt, FiniteSets

(***************************************************************************)
(* rav::AudioData, rav::AudioBuffer and rav::AudioFifoBuffer: samples are  *)
(* converted, interleaved and handed over.                                 *)
(*                                                                         *)
(* A sample is a sequence of as many bytes as its type has.  The last byte *)
(* of a floating point number, in little-endian order, stands for the      *)
(* number, in 1/2^23, and the others are zero.  The machine is a little-   *)
(* endian one, so that Ne is Le.  A float times a power of two is exact;   *)
(* 32767 times a float is rounded, which changes its whole part only when  *)
(* the float was not made of 16 bits.                                      *)
(***************************************************************************)
\* audio_encoding_bytes_per_sample
Width == [u8 |-> 1, s8 |-> 1, s16 |-> 2, s24 |-> 3, s32 |-> 4, f32 |-> 4, f64 |-> 8]
Floats == {"f32", "f64"}

One == 2^23

Float(n, type) == [i \in 1..Width[type] |-> IF i = Width[type] THEN n ELSE 0]
Number(float) == float[Len(float)]

\* read and write of the byte orders: the bytes from the least significant one on
Read(order, sample) == IF order = "be" THEN Reverse(sample) ELSE sample
Write(order, bytes) == IF order = "be" THEN Reverse(bytes) ELSE bytes

Integer(bytes) == ReadLittleEndian(bytes, 0, Len(bytes))

\* std::clamp between -1.0 and 1.0
Clamp(n) == IF n > One THEN One ELSE IF n < -One THEN -One ELSE n

\* A number times the largest sample of so many bits, towards zero.
Truncated(n, bits) ==
  LET size == IF n < 0 THEN -n ELSE n
      unit == 2^(24 - bits)
      whole == size \div unit
      scaled == IF (size % unit) * 2^(bits - 1) >= size THEN whole ELSE whole - 1
  IN  IF n < 0 THEN -scaled ELSE scaled

Widened == {<<"s8", "s16">>, <<"s16", "s24">>, <<"s16", "s32">>}

\* The conversions of convert_sample that are there, on little-endian bytes.
Converted(from, to, bytes) ==
  CASE from = to -> bytes
    [] <<from, to>> = <<"u8", "s8">> -> <<(bytes[1] + 128) % 256>>
    [] <<from, to>> \in Widened -> [i \in 1..(Width[to] - Width[from]) |-> 0] \o bytes
    [] from \in {"s16", "s24"} /\ to \in Floats -> Float(Integer(bytes) * 2^(24 - 8 * Width[from]), to)
    [] from \in Floats /\ to \in {"s16", "s24"} ->
         LittleEndian(Truncated(Clamp(Number(bytes)), 8 * Width[to]), Width[to])

\* convert_sample; a format has a type, an order and an interleaving.
ConvertSample(from, to, sample) == Write(to.order, Converted(from.type, to.type, Read(from.order, sample)))

-----------------------------------------------------------------------------
(* The three forms of convert.  Indices are those of the code, from 0 on.  *)

\* Where a frame of a channel is, in data of so many frames and channels.
Place(interleaved, frame, ch, frames, channels) ==
  IF interleaved THEN frame * channels + ch ELSE ch * frames + frame

\* Where convert looks for the sample that it puts at index i.  From channels one
\* after the other to interleaved ones it divides by the number of frames.
SourceIndex(from, to, i, frames, channels) ==
  CASE from.interleaved = to.interleaved -> i
    [] from.interleaved -> (i % frames) * channels + i \div frames
    [] OTHER -> (i % frames) * frames + i \div channels

\* From data to data: when only the byte order differs, bytes are swapped.
Convert(from, to, src, channels) ==
  IF from.type = to.type /\ from.interleaved = to.interleaved
  THEN [i \in DOMAIN src |-> IF from.order = to.order THEN src[i] ELSE Reverse(src[i])]
  ELSE [i \in DOMAIN src |->
          ConvertSample(from, to, src[1 + SourceIndex(from, to, i - 1, Len(src) \div channels, channels)])]

\* From data to some frames of the channels of a buffer
ToChannels(from, src, frames, to, dst, srcStart, dstStart) ==
  LET channels == Len(dst)
  IN  [c \in 1..channels |->
         [f \in DOMAIN dst[c] |->
            IF f \in (dstStart + 1)..(dstStart + frames)
            THEN ConvertSample(from, to, src[1 + srcStart * channels
                               + Place(from.interleaved, f - 1 - dstStart, c - 1, frames, channels)])
            ELSE dst[c][f]]]

\* From some frames of the channels of a buffer to data
FromChannels(from, src, frames, to, dst, srcStart, dstStart) ==
  LET channels == Len(src)
      At(frame, ch) == 1 + dstStart * channels + Place(to.interleaved, frame, ch, frames, channels)
      written == {At(frame, ch) : frame \in 0..(frames - 1), ch \in 0..(channels - 1)}
      What(i) == CHOOSE s \in (0..(frames - 1)) \X (0..(channels - 1)) : At(s[1], s[2]) = i
  IN  [i \in DOMAIN dst |-> IF i \in written
                            THEN ConvertSample(from, to, src[What(i)[2] + 1][What(i)[1] + 1 + srcStart])
                            ELSE dst[i]]

\* de_interleave and interleave copy bytes.
Rearrange(bytes, channels, width, interleave) ==
  LET frames == Len(bytes) \div (channels * width)
      Copied(i) == LET s == (i - 1) \div width
                       frame == IF interleave THEN s \div channels ELSE s % frames
                       ch == IF interleave THEN s % channels ELSE s \div frames
                   IN  bytes[1 + Place(~interleave, frame, ch, frames, channels) * width + ((i - 1) % width)]
  IN  [i \in DOMAIN bytes |-> Copied(i)]
DeInterleaved(bytes, channels, width) == Rearrange(bytes, channels, width, FALSE)
Interleaved(bytes, channels, width) == Rearrange(bytes, channels, width, TRUE)

\* The same data as bytes and as samples.
AsBytes(samples) == FlattenSeq(samples)
AsSamples(bytes, width) == [i \in 1..(Len(bytes) \div width) |-> View(bytes, (i - 1) * width, width)]

-----------------------------------------------------------------------------
(* AudioBuffer: the samples of its channels one after the other, and of    *)
(* its view the first frames of every channel.                             *)

\* clear_audio_data: half the range of an unsigned type, otherwise zero
Silence(type) == IF type = "u8" THEN <<128>> ELSE [i \in 1..Width[type] |-> 0]

\* resize gives what is new the value zero, also in a buffer of unsigned samples.
Resized(data, type, channels, frames) ==
  [i \in 1..(channels * frames) |-> IF i \in DOMAIN data THEN data[i] ELSE [b \in 1..Width[type] |-> 0]]

\* update_channel_pointers
ChannelsOf(data, channels) ==
  LET frames == Len(data) \div channels
  IN  [c \in 1..channels |-> View(data, (c - 1) * frames, frames)]

\* copy_from and copy_to of all channels
Copied(dst, dstStart, frames, src, srcStart) ==
  [c \in DOMAIN dst |->
     [f \in DOMAIN dst[c] |-> IF f \in (dstStart + 1)..(dstStart + frames)
                              THEN src[c][f - dstStart + srcStart] ELSE dst[c][f]]]

-----------------------------------------------------------------------------
(* AudioFifoBuffer, over Fifo::Single.                                     *)

NewFifo(type, channels, capacity) ==
  [type |-> type, channels |-> ChannelsOf(Resized(<<>>, type, channels, capacity), channels),
   capacity |-> capacity, readTs |-> 0, writeTs |-> 0]

\* Fifo::Position
Position(ts, capacity, n) ==
  LET index == ts % capacity
      first == IF index + n > capacity THEN capacity - index ELSE n
  IN  [index1 |-> index, size1 |-> first, size2 |-> n - first]

\* prepare_for_write and prepare_for_read of Fifo::Single give a lock.
MayWrite(fifo, n) == fifo.writeTs - fifo.readTs + n <= fifo.capacity
MayRead(fifo, n) == fifo.writeTs - fifo.readTs >= n

Native(fifo) == [type |-> fifo.type, order |-> "ne"]

\* write
WriteChannels(fifo, src, n) ==
  LET at == Position(fifo.writeTs, fifo.capacity, n)
  IN  [fifo EXCEPT !.channels = Copied(Copied(@, at.index1, at.size1, src, 0), 0, at.size2, src, at.size1),
                   !.writeTs = @ + n]

\* read, into a buffer of n frames
ReadChannels(fifo, n) ==
  LET at == Position(fifo.readTs, fifo.capacity, n)
      empty == [c \in DOMAIN fifo.channels |-> [f \in 1..n |-> Silence(fifo.type)]]
  IN  [fifo |-> [fifo EXCEPT !.readTs = @ + n],
       channels |-> Copied(Copied(empty, 0, at.size1, fifo.channels, at.index1), at.size1, at.size2, fifo.channels, 0)]

\* Mutant of WriteFromData: the second part starts where the first one did.
WriteFromDataAgain(fifo, from, src, n) ==
  LET at == Position(fifo.writeTs, fifo.capacity, n)
      one == ToChannels(from, src, at.size1, Native(fifo), fifo.channels, 0, at.index1)
  IN  [fifo EXCEPT !.channels = ToChannels(from, src, at.size2, Native(fifo), one, 0, 0), !.writeTs = @ + n]

\* write_from_data
WriteFromData(fifo, from, src, n) ==
  LET at == Position(fifo.writeTs, fifo.capacity, n)
      one == ToChannels(from, src, at.size1, Native(fifo), fifo.channels, 0, at.index1)
  IN  [fifo EXCEPT !.channels = ToChannels(from, src, at.size2, Native(fifo), one, at.size1, 0), !.writeTs = @ + n]

\* read_to_data, over data of n frames
ReadToData(fifo, to, n) ==
  LET at == Position(fifo.readTs, fifo.capacity, n)
      empty == [i \in 1..(n * Len(fifo.channels)) |-> <<>>]
      one == FromChannels(Native(fifo), fifo.channels, at.size1, to, empty, at.index1, 0)
  IN  [fifo |-> [fifo EXCEPT !.readTs = @ + n],
       data |-> FromChannels(Native(fifo), fifo.channels, at.size2, to, one, 0, at.size1)]

-----------------------------------------------------------------------------
(***************************************************************************)
(* WAV files: rav::WavAudioFormat writes them to an output stream and      *)
(* reads them from an input stream, in memory (ByteStream,                 *)
(* InputStreamView) or in a file.  A write to a stream does not fail.      *)
(* Output streams first.                                                   *)
(***************************************************************************)

NewStream == [data |-> <<>>, position |-> 0]

\* write: what lies between the end and the position is filled with zeros.
WriteBytes(stream, bytes) ==
  LET end == stream.position + Len(bytes)
      At(i) == IF i \in (stream.position + 1)..end THEN bytes[i - stream.position]
               ELSE IF i \in DOMAIN stream.data THEN stream.data[i] ELSE 0
      size == IF end > Len(stream.data) THEN end ELSE Len(stream.data)
  IN  [data |-> [i \in 1..size |-> At(i)], position |-> end]

SetWritePosition(stream, position) == [stream EXCEPT !.position = position]

-----------------------------------------------------------------------------
(* The writer.                                                             *)

Riff == <<82, 73, 70, 70>>
Wave == <<87, 65, 86, 69>>
FmtId == <<102, 109, 116, 32>>
DataId == <<100, 97, 116, 97>>

FormatCode == [pcm |-> 1, ieee_float |-> 3, extensible |-> 65534]

\* FmtChunk::write, without extension; fmt has the code, channels, rate and bits.
FmtFields(fmt) ==
  LittleEndian(fmt.code, 2) \o LittleEndian(fmt.channels, 2) \o LittleEndian(fmt.rate, 4)
    \o LittleEndian((fmt.rate * fmt.channels * fmt.bits) \div 8, 4)
    \o LittleEndian((fmt.channels * fmt.bits) \div 8, 2) \o LittleEndian(fmt.bits, 2)
FmtChunk(fmt) == FmtId \o LittleEndian(16, 4) \o FmtFields(fmt)

\* DataChunk::write
DataChunk(written) == DataId \o LittleEndian(written, 4)

\* Mutant of WriteHeader: the position stays behind the header.
WriteHeaderAndStay(writer) ==
  LET chunks == FmtChunk(writer.fmt) \o DataChunk(writer.written)
      riff == Riff \o LittleEndian(writer.chunksSize + writer.written + 4, 4) \o Wave
  IN  [writer EXCEPT !.stream = WriteBytes(SetWritePosition(@, 0), riff \o chunks), !.chunksSize = Len(chunks)]

\* write_header: at the begin of the stream, and back to where it was.
WriteHeader(writer) ==
  LET chunks == FmtChunk(writer.fmt) \o DataChunk(writer.written)
      riff == Riff \o LittleEndian(writer.chunksSize + writer.written + 4, 4) \o Wave
      stream == WriteBytes(SetWritePosition(writer.stream, 0), riff \o chunks)
      position == writer.stream.position
  IN  [writer EXCEPT !.stream = IF position > 0 THEN SetWritePosition(stream, position) ELSE stream,
                     !.chunksSize = Len(chunks)]

\* Writer
NewWriter(fmt) == WriteHeader([stream |-> NewStream, fmt |-> fmt, written |-> 0, chunksSize |-> 0])

WriteAudioData(writer, bytes) ==
  [writer EXCEPT !.stream = WriteBytes(@, bytes), !.written = @ + Len(bytes)]

-----------------------------------------------------------------------------
(* Input streams and the reader.  Reading behind the end fails in memory   *)
(* and throws in a file; one may skip behind the end only in a file.       *)

MaySkipTo(kind, data, position) == kind = "file" \/ position <= Len(data)
Has(data, position, size) == position + size <= Len(data)

\* What is larger than any file is as good as this.
Huge == 2^30
ReadSize(data, position) ==
  LET n == ReadLittleEndian(data, position, 4)
  IN  IF n < 0 \/ n > Huge THEN Huge ELSE n

Failed(reader) == [reader EXCEPT !.status = "failed"]

\* FmtChunk::read: of an extension, its size decides; what else the chunk has is
\* taken for the next chunk.
ReadFmt(reader, data, position, size) ==
  LET cb == ReadLittleEndian(data, position + 16, 2)
      length == IF size <= 16 THEN 16 ELSE IF cb = 0 THEN 18 ELSE 40
  IN  IF \/ ~Has(data, position, 16)
         \/ size > 16 /\ (size < 18 \/ ~Has(data, position, 18))
         \/ size > 16 /\ cb # 0 /\ (size < 40 \/ ~Has(data, position, 40))
      THEN Failed(reader)
      ELSE [reader EXCEPT !.position = position + length,
              !.fmt = [code |-> ReadUnsigned(Reverse(View(data, position, 2)), 0, 2),
                       channels |-> ReadLittleEndian(data, position + 2, 2),
                       rate |-> ReadLittleEndian(data, position + 4, 4),
                       bits |-> ReadLittleEndian(data, position + 14, 2)]]

\* DataChunk::read
ReadData(reader, kind, data, position, size) ==
  IF ~MaySkipTo(kind, data, position + size) THEN Failed(reader)
  ELSE [reader EXCEPT !.position = position + size, !.data = [begin |-> position, size |-> size]]

\* One turn of the loop of Reader: chunks begin at even positions.
NextChunk(reader, kind, data) ==
  LET at == reader.position + (reader.position % 2)
      id == View(data, at, 4)
      size == ReadSize(data, at + 4)
      start == at + 8
  IN  IF reader.status = "failed" \/ at >= Len(data) THEN reader
      ELSE IF ~Has(data, at, 8) THEN Failed(reader)
      ELSE CASE id = FmtId -> ReadFmt(reader, data, start, size)
             [] id = DataId -> ReadData(reader, kind, data, start, size)
             [] OTHER -> IF MaySkipTo(kind, data, start + size) THEN [reader EXCEPT !.position = start + size]
                         ELSE Failed(reader)

NoFormat == [code |-> 0, channels |-> 0, rate |-> 0, bits |-> 0]
NoData == [begin |-> 0, size |-> 0]
NewReader == [status |-> "ok", position |-> 12, fmt |-> NoFormat, data |-> NoData, read |-> 0]

\* Reader; every turn of its loop gets 8 bytes further.
OpenReader(kind, data) ==
  LET Turn(reader, i) == NextChunk(reader, kind, data)
  IN  IF ~Has(data, 0, 12) \/ View(data, 0, 4) # Riff \/ View(data, 8, 4) # Wave THEN Failed(NewReader)
      ELSE FoldLeft(Turn, NewReader, [i \in 1..(Len(data) \div 8) |-> i])

\* to_audio_format: the type of the samples, if there is one.
SampleType(fmt) ==
  LET types == {t \in {<<1, 8, "u8">>, <<1, 16, "s16">>, <<1, 24, "s24">>, <<3, 32, "f32">>, <<3, 64, "f64">>} :
                  t[1] = fmt.code /\ t[2] = fmt.bits}
  IN  IF types = {} THEN "none" ELSE (CHOOSE t \in types : TRUE)[3]

RemainingAudioData(reader) == reader.data.size - reader.read

\* read_audio_data, and what it gave; behind the end of a file it throws.
ReadAudioData(reader, data, size) ==
  LET count == IF size < RemainingAudioData(reader) THEN size ELSE RemainingAudioData(reader)
      begin == reader.data.begin + reader.read
  IN  IF ~Has(data, begin, count) THEN [reader |-> Failed(reader), bytes |-> <<>>]
      ELSE [reader |-> [reader EXCEPT !.read = @ + count], bytes |-> View(data, begin, count)]

SetReadPosition(reader, position) == [reader EXCEPT !.read = position]

-----------------------------------------------------------------------------
CONSTANTS
  Jobs,        \* records: the types of what comes, waits and is written, and how it comes and goes
  Channels,
  Capacity,    \* frames of the fifo
  Samples,     \* the samples that come, over and over, as a sequence of fractions of one, in 1/2^23
  MaxFrames,   \* bound: the frames that come
  MaxBatch,    \* frames at once
  MaxHeaders,  \* bound: how many times the file is finalized while it grows
  Foreign      \* files of others: their bytes, format and audio data

ASSUME SamplesAssumption == Samples # <<>> /\ \A i \in DOMAIN Samples : Samples[i] \in -One..(One - 1)

VARIABLES
  phase,      \* "recording", "closed", "crashed", or "playing"
  job,
  captured,   \* history: how many frames went into the fifo
  fifo,
  writer,
  disk,       \* history: what is on the disk, up to where it was flushed, and its frames then
  headers,
  expected,   \* what the file that is played should have: its format and audio data
  input,      \* kind of stream and data
  reader,
  played      \* channels, of samples in big-endian order

recorded == <<job, captured, fifo, writer, disk, headers>>
playing == <<expected, input, reader, played>>
recordingVars == <<phase, recorded, playing>>

-----------------------------------------------------------------------------

\* The sample of a channel in a frame, a fraction of one, as a sample of a type.
Fraction(frame, c) == Samples[1 + ((Channels * frame + c) % Len(Samples))]
Quantised(n, type) == LittleEndian(n \div 2^(24 - 8 * Width[type]), Width[type])
Coming(frame, c) == Quantised(Fraction(frame, c), job.from)

\* The fraction that the bytes of a sample stand for.
Meaning(bytes, type) == Integer(bytes) * 2^(24 - 8 * Width[type])

Big(type, interleaved) == [type |-> type, order |-> "be", interleaved |-> interleaved]
Little(type, interleaved) == [type |-> type, order |-> "le", interleaved |-> interleaved]

FileFormat == [code |-> FormatCode.pcm, channels |-> Channels, rate |-> 48000, bits |-> 8 * Width[job.to]]

\* The next n frames, in big-endian order.
Incoming(interleaved, n) ==
  [i \in 1..(n * Channels) |->
     IF interleaved THEN Write("be", Coming(captured + ((i - 1) \div Channels), (i - 1) % Channels))
     ELSE Write("be", Coming(captured + ((i - 1) % n), (i - 1) \div n))]

\* As data, as data whose channels are put together first, through a buffer of
\* the type of the fifo, or as data with one channel after the other: only when
\* the fifo does not wrap, as write_from_data mixes the channels up otherwise.
Arrived(n) ==
  CASE job.comes = "data" -> WriteFromData(fifo, Big(job.from, TRUE), Incoming(TRUE, n), n)
    [] job.comes = "planar" ->
         LET together == Interleaved(AsBytes(Incoming(FALSE, n)), Channels, Width[job.from])
         IN  WriteFromData(fifo, Big(job.from, TRUE), AsSamples(together, Width[job.from]), n)
    [] job.comes = "buffer" ->
         LET silent == ChannelsOf(Resized(<<>>, job.waits, Channels, n), Channels)
         IN  WriteChannels(fifo, ToChannels(Big(job.from, TRUE), Incoming(TRUE, n), n, Native(fifo), silent, 0, 0), n)
    [] job.comes = "channels" -> WriteFromData(fifo, Big(job.from, FALSE), Incoming(FALSE, n), n)

\* write_from_data or write: nothing comes in when there is not enough space.
Capture(n) ==
  /\ phase = "recording" /\ captured + n <= MaxFrames
  /\ MayWrite(fifo, n)
  /\ job.comes = "channels" => Position(fifo.writeTs, fifo.capacity, n).size2 = 0
  /\ fifo' = Arrived(n)
  /\ captured' = captured + n
  /\ UNCHANGED <<phase, job, writer, disk, headers, playing>>

\* read_to_data, or read and convert, and write_audio_data
Drain(n) ==
  /\ phase = "recording" /\ MayRead(fifo, n)
  /\ LET little == Little(job.to, TRUE)
         asData == ReadToData(fifo, little, n)
         asBuffer == ReadChannels(fifo, n)
         unset == [i \in 1..(n * Channels) |-> <<>>]
         data == IF job.goes = "data" THEN asData.data
                 ELSE FromChannels(Native(fifo), asBuffer.channels, n, little, unset, 0, 0)
     IN  /\ fifo' = IF job.goes = "data" THEN asData.fifo ELSE asBuffer.fifo
         /\ writer' = WriteAudioData(writer, AsBytes(data))
  /\ UNCHANGED <<phase, job, captured, disk, headers, playing>>

\* finalize: write_header and flush
Finalize ==
  /\ phase = "recording" /\ headers > 0
  /\ headers' = headers - 1
  /\ writer' = WriteHeader(writer)
  /\ disk' = [data |-> writer'.stream.data, frames |-> fifo.readTs, flushed |-> Len(writer'.stream.data)]
  /\ UNCHANGED <<phase, job, captured, fifo, playing>>

\* The destructor of Writer finalizes.
Close ==
  /\ phase = "recording"
  /\ writer' = WriteHeader(writer)
  /\ disk' = [data |-> writer'.stream.data, frames |-> fifo.readTs, flushed |-> Len(writer'.stream.data)]
  /\ phase' = "closed"
  /\ UNCHANGED <<job, captured, fifo, headers, playing>>

\* The power fails: of what was written since the last flush any part may be on
\* the disk, from the begin on.
Crash ==
  /\ phase = "recording"
  /\ \E size \in Len(disk.data)..Len(writer.stream.data) :
       disk' = [disk EXCEPT !.data = @ \o SubSeq(writer.stream.data, Len(@) + 1, size)]
  /\ phase' = "crashed"
  /\ UNCHANGED <<job, captured, fifo, writer, headers, playing>>

-----------------------------------------------------------------------------

FrameSize == Channels * Width[job.to]
Silent == [c \in 1..Channels |-> <<>>]

\* Reader, on what is on the disk or on a file of others.
Open(kind, data, format, size, whole) ==
  /\ phase' = "playing"
  /\ input' = [kind |-> kind, data |-> data]
  /\ reader' = OpenReader(kind, data)
  /\ expected' = [format |-> format, size |-> size, whole |-> whole]
  /\ UNCHANGED <<recorded, played>>

OpenRecorded(kind) ==
  /\ phase \in {"closed", "crashed"}
  /\ Open(kind, disk.data, FileFormat, disk.frames * FrameSize, disk.flushed > 0 /\ Len(disk.data) = disk.flushed)

OpenForeign(kind) ==
  /\ phase = "recording" /\ captured = 0
  /\ \E file \in Foreign : Open(kind, file.data, file.format, file.size, TRUE)

\* read_audio_data, as the player does, from the begin again after the end; the
\* channels are taken apart with convert or de_interleave.
Play(n) ==
  /\ phase = "playing" /\ reader.status = "ok" /\ reader.data.size > 0
  /\ reader.fmt = FileFormat
  /\ LET rewinds == RemainingAudioData(reader) = 0
         result == ReadAudioData(IF rewinds THEN SetReadPosition(reader, 0) ELSE reader, input.data, n * FrameSize)
         frames == Len(result.bytes) \div FrameSize
         apart == AsSamples(DeInterleaved(result.bytes, Channels, Width[job.to]), Width[job.to])
         big == Big(job.to, FALSE)
         data == IF job.goes = "data"
                 THEN Convert(Little(job.to, TRUE), big, AsSamples(result.bytes, Width[job.to]), Channels)
                 ELSE Convert(Little(job.to, FALSE), big, apart, Channels)
         before == IF rewinds THEN Silent ELSE played
     IN  /\ reader' = result.reader
         /\ played' = [c \in 1..Channels |-> before[c] \o View(data, (c - 1) * frames, frames)]
  /\ UNCHANGED <<phase, recorded, expected, input>>

NoInput == [kind |-> "none", data |-> <<>>]
NoExpectation == [format |-> NoFormat, size |-> 0, whole |-> FALSE]

RecordingInit ==
  /\ phase = "recording"
  /\ job \in Jobs
  /\ captured = 0
  /\ fifo = NewFifo(job.waits, Channels, Capacity)
  /\ writer = NewWriter(FileFormat)
  /\ disk = [data |-> <<>>, frames |-> 0, flushed |-> 0]
  /\ headers = MaxHeaders
  /\ expected = NoExpectation /\ input = NoInput /\ reader = NewReader
  /\ played = Silent

RecordingNext ==
  \/ \E n \in 1..MaxBatch : Capture(n) \/ Drain(n) \/ Play(n)
  \/ Finalize
  \/ Close
  \/ Crash
  \/ \E kind \in {"file", "memory"} : OpenRecorded(kind) \/ OpenForeign(kind)

RecordingSpec == RecordingInit /\ [][RecordingNext]_recordingVars

-----------------------------------------------------------------------------

\* One step of the samples in the file.
Step == 2^(24 - 8 * Width[job.to])

IsNear(sample, came) ==
  LET difference == Meaning(Read("be", sample), job.to) - Meaning(came, job.from)
  IN  -2 * Step < difference /\ difference < 2 * Step

\* A file that was finalized, with nothing written after it, is read with the
\* format it was written in and all its audio data, its size is in its header, and
\* so is a file of others, whatever other chunks it has.  What is played of a
\* recording is what came, from the first frame on, of each channel, closer to it
\* than two steps of the samples of the file, as 1.0 becomes the largest of them,
\* whatever pieces it came, waited and was written in, and however many times the
\* file was finalized in between.
RecordingIsPlayedBack ==
  phase = "playing" /\ expected.whole =>
    /\ reader.status = "ok"
    /\ reader.fmt = expected.format
    /\ reader.data.size = expected.size
    /\ ReadSize(input.data, 4) = Len(input.data) - 8
    /\ \A c \in 1..Channels :
         /\ Len(played[c]) * FrameSize = reader.read
         /\ \A i \in DOMAIN played[c] : IsNear(played[c][i], Coming(i - 1, c - 1))

\* "This can be useful in cases where the computer might lose power, and you don't
\* want to lose the entire file" (finalize, wav_audio_format.hpp): what was in the
\* file when it was finalized can be read after a crash.
FinalizedIsNotLost ==
  phase = "playing" /\ expected.size > 0 => reader.status = "ok" /\ reader.data.size >= expected.size
=============================================================================
