\* Four events over an idle tick, an edit and a write of one buffer, enqueued
\* by producers and by plugins while the queue drains.
CONSTANTS
    Kinds = {"Idle", "BufferInsertText", "BufferWrite"}
    Buffers = {"b1"}
    NoBuffer = NoBuffer
    StdinBuffers <- MCStdinBuffers
    MaxEvents = 4
SPECIFICATION Spec
PROPERTY ImplementsEventBus DrainReachesFixedPoint
