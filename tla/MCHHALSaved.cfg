CONSTANTS
    UserSources = {"k.cu"}
    SavedSources = {"kernel-h.c"}
    Prebuilt = {"p"}
    Binaries = {"k", "kernel-h"}
    BinaryOf <- MCBinaryOf
    Expiration = 1
    Kernels = {"k0", "k1"}
    Buffers = {"b0"}
    Events = {"e0"}
    Setups <- MCSetups
    MaxTime = 2
    MaxVersion = 2
SPECIFICATION Spec
INVARIANT SavedIsFound
